---- MODULE Spec2Model ----
(***************************************************************************)
(* A model of the sentinel LLM gateway: the circuit breaker, the retry     *)
(* policy, the provider adapters and the router, the sliding-window rate   *)
(* limiter and the chat-completions pipeline.                              *)
(*                                                                         *)
(* The module holds several specifications over one set of variables; each *)
(* specification drives one component and leaves the variables of the      *)
(* others at their initial values:                                         *)
(*   SpecBreaker   one CircuitBreaker object under arbitrary calls         *)
(*   SpecRetry     one RetryPolicy.execute_with_retry call                 *)
(*   SpecRouter    concurrent Router.route / Router.stream calls over the  *)
(*                 provider adapters, their breakers and the retry policy  *)
(*   SpecLimiter   concurrent RateLimiter.is_allowed calls on one key      *)
(*   SpecPipeline  concurrent create_chat_completion requests              *)
(*                                                                         *)
(* asyncio runs one coroutine at a time and switches only at an await that *)
(* really suspends, so every action below is the code between two such     *)
(* suspension points.  time.time() is the variable now, a positive integer *)
(* that only grows.                                                        *)
(***************************************************************************)
EXTENDS Integers, Sequences, FiniteSets, TLC

VARIABLES
    now,        \* time.time()
    cb,         \* SpecBreaker: the CircuitBreaker object
    cbOp,       \* SpecBreaker: the last call made on cb, the state it found, what it returned
    streak,     \* SpecBreaker: record_failure calls since the last record_success / reset / construction
    trips,      \* metrics counter circuit_breaker_trips
    rp,         \* SpecRetry: one execute_with_retry call
    fallbacks,  \* SpecRouter: Router._fallbacks
    breakers,   \* SpecRouter: each adapter's _circuit_breaker
    rq,         \* SpecRouter: the route / stream calls, one per caller
    limiter,    \* SpecLimiter: the RateLimiter object
    zset,       \* SpecLimiter: the sorted set rate:<identifier>; every member is its own score
    ttl,        \* SpecLimiter: the time at which the key expires, 0 with no expiry set
    rl,         \* SpecLimiter: the is_allowed calls in progress
    admits,     \* SpecLimiter: the times at which is_allowed returned True, in order
    rlCalls,    \* SpecLimiter: is_allowed calls started so far
    cfg,        \* SpecPipeline: which services app.state holds (None when absent)
    P,          \* SpecPipeline: the create_chat_completion requests, one per client
    met,        \* SpecPipeline: the counters of the metrics collector
    kvstore,    \* SpecPipeline: the exact-cache entries llm:<hex> in the KV store
    kvUp,       \* SpecPipeline: whether the KV store answers
    vstore,     \* SpecPipeline: the semantic cache's entries
    routerCalls, \* SpecPipeline: calls of Router.route / Router.stream made so far
    fn          \* SpecKey: two request bodies and their keys; SpecSearch: a VectorStore and
                \* its last search; SpecRedact: messages, findings and the redacted messages

vars == <<now, cb, cbOp, streak, trips, rp, fallbacks, breakers, rq,
          limiter, zset, ttl, rl, admits, rlCalls,
          cfg, P, met, kvstore, kvUp, vstore, routerCalls, fn>>

(***************************************************************************)
(* Bounds of the model.                                                    *)
(***************************************************************************)
MaxTime == 5            \* the clock stops here
MaxThreshold == 3       \* failure_threshold is drawn from 1..MaxThreshold
MaxRecovery == 2        \* recovery_timeout is drawn from 1..MaxRecovery
MaxFailures == 4        \* record_failure calls in one streak
MaxTrips == 2           \* circuit_breaker_trips counted
MaxAttemptsBound == 3   \* max_attempts is drawn from -1..MaxAttemptsBound
RouterRecovery == 1     \* recovery_timeout of the adapters' breakers, in ticks
MaxChunks == 1          \* chunks one stream call yields
MaxRequests == 2        \* max_requests is drawn from 1..MaxRequests
MaxWindow == 2          \* window_seconds is drawn from 1..MaxWindow
MaxLimiterCalls == 4    \* is_allowed calls started in one behaviour
MaxLen == 4             \* characters of the text that is redacted
MaxFindings == 2        \* findings on one text
MaxEntries == 2         \* vectors added to one VectorStore
MaxNames == 2           \* names in one fallback entry of SpecChain
MaxRegisters == 3       \* register calls on one ProviderRegistry
MaxRecords == 3         \* record calls started in one behaviour
CacheTTL == 2           \* default_ttl of the exact cache, in ticks
PipelineMaxTime == 3    \* the clock of SpecPipeline stops here

(***************************************************************************)
(* Defaults of the program.                                                *)
(***************************************************************************)
DefaultThreshold == 3   \* CircuitBreaker(failure_threshold = 3)
DefaultAttempts == 3    \* RetryPolicy(max_attempts = 3)

(***************************************************************************)
(* core/circuit_breaker.py                                                 *)
(***************************************************************************)
CircuitBreakerState == {"closed", "open", "half_open"}

CircuitBreaker(failure_threshold, recovery_timeout) ==
    [failure_threshold |-> failure_threshold,
     recovery_timeout  |-> recovery_timeout,
     failure_count     |-> 0,
     last_failure_time |-> 0,
     state             |-> "closed"]

\* can_execute with ">=" for ">" : half-opens one tick early
can_execute_early(b, t) ==
    IF b.state = "open"
    THEN IF t - b.last_failure_time >= b.recovery_timeout
         THEN [cb |-> [b EXCEPT !.state = "half_open"], ret |-> TRUE]
         ELSE [cb |-> b, ret |-> FALSE]
    ELSE [cb |-> b, ret |-> TRUE]

\* the breaker after the call, and the value returned
can_execute(b, t) ==
    IF b.state = "open"
    THEN IF t - b.last_failure_time > b.recovery_timeout
         THEN [cb |-> [b EXCEPT !.state = "half_open"], ret |-> TRUE]
         ELSE [cb |-> b, ret |-> FALSE]
    ELSE [cb |-> b, ret |-> TRUE]

\* record_success closing the breaker without clearing the count
record_success_keeps_count(b) == [b EXCEPT !.state = "closed"]

record_success(b) ==
    [b EXCEPT !.failure_count = 0, !.state = "closed"]

reset(b) ==
    [b EXCEPT !.failure_count = 0, !.last_failure_time = 0, !.state = "closed"]

\* record_failure that stamps last_failure_time only while it stays closed
record_failure_nostamp(b, t) ==
    LET n == b.failure_count + 1 IN
    IF n >= b.failure_threshold
    THEN [b EXCEPT !.failure_count = n, !.state = "open"]
    ELSE [b EXCEPT !.failure_count = n, !.last_failure_time = t]

\* record_failure starting the count again at the threshold when it reopens
record_failure_restarts(b, t) ==
    LET n == b.failure_count + 1 IN
    [b EXCEPT !.failure_count = IF b.state = "half_open" THEN b.failure_threshold ELSE n,
              !.last_failure_time = t,
              !.state = IF n >= b.failure_threshold THEN "open" ELSE @]

record_failure(b, t) ==
    LET n == b.failure_count + 1 IN
    [b EXCEPT !.failure_count = n,
              !.last_failure_time = t,
              !.state = IF n >= b.failure_threshold THEN "open" ELSE @]

\* whether this record_failure call increments circuit_breaker_trips
record_failure_trips(b) ==
    b.failure_count + 1 >= b.failure_threshold

(***************************************************************************)
(* core/retry.py                                                           *)
(***************************************************************************)
\* entering the for loop: range(1, max_attempts + 1) is empty below 1 and
\* the function then falls off its end, returning None
execute_with_retry_enter(max_attempts) ==
    IF max_attempts >= 1 THEN "call" ELSE "return_none"

\* the except branch giving up one attempt early
execute_with_retry_except_early(max_attempts, attempt) ==
    IF attempt >= max_attempts - 1 THEN "raise" ELSE "sleep"

\* the except branch giving up one attempt late
execute_with_retry_except_late(max_attempts, attempt) ==
    IF attempt = max_attempts + 1 THEN "raise" ELSE "sleep"

\* the except branch of attempt number attempt
execute_with_retry_except(max_attempts, attempt) ==
    IF attempt = max_attempts THEN "raise" ELSE "sleep"

Values == {"v1", "v2"}
Errors == {"e1", "e2"}

NoCall == [max_attempts |-> 0, pc |-> "idle", attempt |-> 0, log |-> << >>,
           ret |-> "none", err |-> "none"]

(***************************************************************************)
(* providers/registry.py: the registry as main.py fills it.  Adapter A     *)
(* declares model m1, adapter B declares none of the models requested; the *)
(* name C is registered nowhere.                                           *)
(***************************************************************************)
Providers == {"A", "B"}
Models == {"m1", "m2"}
None == "None"

\* ProviderRegistry.__init__: _providers maps a name to the adapter, here
\* the set of models the adapter declares; _model_map maps a model to a name
ProviderRegistry == [providers |-> [n \in {} |-> {}], model_map |-> [m \in {} |-> None]]

\* ProviderRegistry.register, of an adapter with this name and these models
register(reg, name, models) ==
    LET kept == IF name \in DOMAIN reg.providers
                THEN {m \in DOMAIN reg.model_map : reg.model_map[m] # name}
                ELSE DOMAIN reg.model_map
    IN  [providers |-> [n \in DOMAIN reg.providers \cup {name} |->
                           IF n = name THEN models ELSE reg.providers[n]],
         model_map |-> [m \in kept \cup models |->
                           IF m \in models THEN name ELSE reg.model_map[m]]]

\* ProviderRegistry.get_provider
registry_get_provider(reg, name) == IF name \in DOMAIN reg.providers THEN name ELSE None

\* ProviderRegistry.get_provider_for_model
registry_get_provider_for_model(reg, model) ==
    IF model \notin DOMAIN reg.model_map THEN None
    ELSE registry_get_provider(reg, reg.model_map[model])

\* the registry of the router's specifications: A declares m1, B is
\* registered after it, no adapter declares m2
model_map == [m \in {"m1"} |-> "A"]

get_provider(name) == IF name \in Providers THEN name ELSE None

get_provider_for_model(model) ==
    IF model \in DOMAIN model_map THEN get_provider(model_map[model]) ELSE None

(***************************************************************************)
(* providers/router.py                                                     *)
(***************************************************************************)
\* the fallback tables a Router is built with: main.py's wildcard chain, an
\* exact entry that names an unregistered adapter, and no table at all
FallbackConfigs ==
    { [k \in {"*"} |-> <<"A", "B">>],
      [k \in {"m1"} |-> <<"B", "C", "A">>],
      [k \in {} |-> << >>] }

\* the names of a fallback entry that the registry knows, in order
RECURSIVE resolve_names(_)
resolve_names(names) ==
    IF names = << >> THEN << >>
    ELSE (IF get_provider(Head(names)) # None THEN <<Head(names)>> ELSE << >>)
         \o resolve_names(Tail(names))

\* _resolve_chain consulting the wildcard entry before the exact one
resolve_chain_wildcard_first(fb, model) ==
    IF "*" \in DOMAIN fb THEN resolve_names(fb["*"])
    ELSE IF model \in DOMAIN fb THEN resolve_names(fb[model])
    ELSE IF get_provider_for_model(model) # None
         THEN <<get_provider_for_model(model)>>
         ELSE << >>

resolve_chain(fb, model) ==
    IF model \in DOMAIN fb THEN resolve_names(fb[model])
    ELSE IF "*" \in DOMAIN fb THEN resolve_names(fb["*"])
    ELSE IF get_provider_for_model(model) # None
         THEN <<get_provider_for_model(model)>>
         ELSE << >>

\* the except branch of the router's loop replacing the list by its last error
router_except_last(errors, name, exc) == <<<<name, exc>>>>

\* the except branch of the router's loop: errors.append((provider.name, exc))
router_except(errors, name, exc) == Append(errors, <<name, exc>>)

(***************************************************************************)
(* providers/base.py, providers/openai.py, providers/anthropic.py          *)
(***************************************************************************)
\* is_available answering True without asking the breaker
is_available_always(b, t) == [ret |-> TRUE, cb |-> b]

is_available(b, t) == can_execute(b, t)

\* complete's except branch recording the failure twice
complete_except_twice(b, t) == record_failure(record_failure(b, t), t)

\* complete's except branch, reached once the retry loop has raised
complete_except(b, t) == record_failure(b, t)

\* complete returning its result without recording the success
complete_success_unrecorded(b) == b

complete_success(b) == record_success(b)

\* stream's except branch recording a success
stream_except_as_success(b, t) == record_success(b)

stream_except(b, t) == record_failure(b, t)

stream_success(b) == record_success(b)

Reqs == {"r1", "r2"}

NoReq == [pc |-> "idle", kind |-> "none", chain |-> << >>, i |-> 0, attempt |-> 0,
          errors |-> << >>, invoked |-> << >>, upstream |-> [p \in Providers |-> 0],
          out |-> 0, result |-> "none", content |-> "none", trial |-> FALSE,
          frames |-> << >>, cut |-> 0, judged |-> FALSE]

\* stream_and_judge, the consumer of Router.stream: the frames sent to the
\* client.  A chunk of provider p is sent as a content frame, here p
sse_chunk(q, p) == [q EXCEPT !.frames = Append(@, p)]

\* Router.stream is exhausted: the [DONE] frame, and the judge if any
\* content was collected
sse_exhausted(q) == [q EXCEPT !.frames = Append(@, "[DONE]"), !.judged = (q.out > 0)]

\* Router.stream raised NoProviderError or AllProvidersFailedError: the
\* error frame, and return
sse_raised(q) ==
    IF q.kind = "stream" /\ q.pc = "done"
       /\ q.result \in {"NoProviderError", "AllProvidersFailedError"}
    THEN [q EXCEPT !.frames = Append(@, "error")]
    ELSE q

\* the adapter's stream closed by a failure recorded on its breaker
stream_closed_as_failure(b, t) == record_failure(b, t)

\* the adapter's stream closed at its yield or cancelled in its await:
\* GeneratorExit and CancelledError are not Exceptions, so neither
\* record_failure nor record_success runs
stream_closed(b, t) == b

\* the adapter's call once its breaker has admitted it, up to its first await
adapter_enter(q, p, b) ==
    IF q.kind = "stream"
    THEN [brs |-> b,
          q |-> [q EXCEPT !.pc = "stream", !.upstream[p] = @ + 1,
                          !.trial = (b.state = "half_open")]]
    ELSE IF execute_with_retry_enter(DefaultAttempts) = "call"
    THEN [brs |-> b,
          q |-> [q EXCEPT !.pc = "call", !.attempt = 1, !.upstream[p] = @ + 1,
                          !.trial = (b.state = "half_open")]]
    ELSE [brs |-> complete_success(b),
          q |-> [q EXCEPT !.pc = "done", !.result = "response", !.content = None]]

\* the end of the router's loop raising NoProviderError when nothing failed
chain_exhausted_no_provider(q) ==
    [q EXCEPT !.pc = "done",
              !.result = IF q.errors = << >> THEN "NoProviderError"
                         ELSE "AllProvidersFailedError"]

\* the end of the router's loop: raise AllProvidersFailedError(errors)
chain_exhausted(q) == [q EXCEPT !.pc = "done", !.result = "AllProvidersFailedError"]

\* the names in the detail of the handler's 503: [n for n, _ in e.errors]
error_names(errors) == [j \in 1..Len(errors) |-> errors[j][1]]

\* the handler's mapping of the router's errors to a status
route_error_status(exc) ==
    IF exc = "NoProviderError" THEN 404
    ELSE IF exc = "AllProvidersFailedError" THEN 503
    ELSE 0

\* Router.route / Router.stream from chain position q.i on, up to the first
\* await that suspends: adapters that are not available are skipped, the
\* first available one is invoked (is_available, then the adapter's own
\* can_execute gate), and a chain that runs out raises AllProvidersFailedError
RECURSIVE route_loop(_, _, _)
route_loop(brs, q, t) ==
    IF q.i > Len(q.chain)
    THEN [brs |-> brs, q |-> chain_exhausted(q)]
    ELSE LET p == q.chain[q.i]
             avail == is_available(brs[p], t)
             gate == can_execute(avail.cb, t)
             q1 == [q EXCEPT !.invoked = Append(@, q.i)]
             in == adapter_enter(q1, p, gate.cb)
         IN  IF ~avail.ret
             THEN route_loop([brs EXCEPT ![p] = avail.cb], [q EXCEPT !.i = @ + 1], t)
             ELSE IF ~gate.ret
             THEN route_loop([brs EXCEPT ![p] = gate.cb],
                             [q1 EXCEPT !.errors = router_except(@, p, "CircuitOpenError"),
                                        !.i = @ + 1], t)
             ELSE [brs |-> [brs EXCEPT ![p] = in.brs], q |-> in.q]

\* Router.route / Router.stream from the call up to the first await that
\* suspends: the chain is resolved, an empty chain raises NoProviderError,
\* otherwise the loop over the chain starts
route_enter(fb, brs, kind, model, t) ==
    LET chain == resolve_chain(fb, model)
        q == [NoReq EXCEPT !.kind = kind, !.chain = chain, !.i = 1]
        go == route_loop(brs, q, t)
    IN  IF chain = << >>
        THEN [brs |-> brs, q |-> sse_raised([q EXCEPT !.pc = "done", !.result = "NoProviderError"])]
        ELSE [brs |-> go.brs, q |-> sse_raised(go.q)]

\* a breaker on which n failures were recorded at time 1
RECURSIVE Failed(_)
Failed(n) ==
    IF n = 0 THEN CircuitBreaker(DefaultThreshold, RouterRecovery)
    ELSE record_failure(Failed(n - 1), 1)

InitRouterIdle ==
    /\ fallbacks = [k \in {} |-> << >>]
    /\ breakers = [p \in Providers |-> Failed(0)]
    /\ rq = [r \in Reqs |-> NoReq]

(***************************************************************************)
(* core/rate_limiter.py.  The Redis commands of one is_allowed call are    *)
(* awaited one by one, so the commands of concurrent calls interleave.     *)
(***************************************************************************)
RateLimiter(max_requests, window_seconds) ==
    [max_requests |-> max_requests, window_seconds |-> window_seconds]

Callers == {"c1", "c2"}

NoCheck == [pc |-> "idle", now |-> 0, count |-> 0, ret |-> "none",
            op |-> "is_allowed", raised |-> FALSE, remaining |-> 0]

\* is_allowed's except clause returning False
is_allowed_except_closed(lim) == FALSE

\* is_allowed: except Exception: return True
is_allowed_except(lim) == TRUE

\* get_remaining: return max(0, max_requests - count)
get_remaining_return(lim, count) ==
    IF lim.max_requests - count > 0 THEN lim.max_requests - count ELSE 0

\* get_remaining: except Exception: return max_requests
get_remaining_except(lim) == lim.max_requests

\* ZREMRANGEBYSCORE key lo hi
zremrangebyscore(z, lo, hi) == {m \in z : ~(lo <= m /\ m <= hi)}

\* ZCOUNT key lo hi
zcount(z, lo, hi) == Cardinality({m \in z : lo <= m /\ m <= hi})

\* ZADD key {now: now}: the member is the timestamp itself
zadd(z, member) == z \cup {member}

InitLimiterIdle ==
    /\ limiter = RateLimiter(100, 60)
    /\ zset = {}
    /\ ttl = 0
    /\ rl = [c \in Callers |-> NoCheck]
    /\ admits = << >>
    /\ rlCalls = 0

(***************************************************************************)
(* services/vector_store.py.  Embeddings are vectors of two integer        *)
(* coordinates, the score of two vectors is their inner product.  The      *)
(* FAISS index keeps every vector ever added, at positions 0, 1, ...;      *)
(* remove deletes the metadata of a position only.                         *)
(***************************************************************************)
Vectors == {<<1, 0>>, <<0, 1>>, <<1, 1>>}
Responses == {"r1", "r2"}
Thresholds == 0..2

\* the inner product IndexFlatIP computes
score(x, y) == x[1] * y[1] + x[2] * y[2]

\* VectorStore.__init__
VectorStore == [index |-> << >>, metadata |-> << >>, next_position |-> 0]

\* VectorStore.add without the increment of _next_position
add_same_position(vs, embedding, meta) ==
    [index |-> Append(vs.index, embedding),
     metadata |-> [p \in DOMAIN vs.metadata \cup {vs.next_position} |->
                      IF p = vs.next_position THEN meta ELSE vs.metadata[p]],
     next_position |-> vs.next_position]

\* the position_id that add returns
add_return(vs) == vs.next_position

\* the bool that remove returns
remove_return(vs, position_id) == position_id \in DOMAIN vs.metadata

\* VectorStore.size
size(vs) == Cardinality(DOMAIN vs.metadata)

\* VectorStore.add
add(vs, embedding, meta) ==
    [index |-> Append(vs.index, embedding),
     metadata |-> [p \in DOMAIN vs.metadata \cup {vs.next_position} |->
                      IF p = vs.next_position THEN meta ELSE vs.metadata[p]],
     next_position |-> vs.next_position + 1]

\* VectorStore.remove
remove(vs, position_id) ==
    IF position_id \notin DOMAIN vs.metadata THEN vs
    ELSE [vs EXCEPT !.metadata = [p \in DOMAIN vs.metadata \ {position_id} |-> vs.metadata[p]]]

\* the positions index.search(x, 1) may return: those of the highest score
nearest(vs, x) ==
    {i \in 0..(Len(vs.index) - 1) :
        \A j \in 0..(Len(vs.index) - 1) : score(vs.index[j + 1], x) <= score(vs.index[i + 1], x)}

NoMatch == [found |-> FALSE, response |-> "none", score |-> 0, position |-> 0]

\* VectorStore.search without the comparison with the threshold
search_any_score(vs, x, threshold, best_idx) ==
    IF Len(vs.index) = 0 THEN NoMatch
    ELSE IF best_idx \notin DOMAIN vs.metadata THEN NoMatch
    ELSE [found |-> TRUE, response |-> vs.metadata[best_idx],
          score |-> score(vs.index[best_idx + 1], x), position |-> best_idx]

\* VectorStore.search, best_idx being the position index.search returned
search(vs, x, threshold, best_idx) ==
    IF Len(vs.index) = 0 THEN NoMatch
    ELSE IF score(vs.index[best_idx + 1], x) < threshold THEN NoMatch
    ELSE IF best_idx \notin DOMAIN vs.metadata THEN NoMatch
    ELSE [found |-> TRUE, response |-> vs.metadata[best_idx],
          score |-> score(vs.index[best_idx + 1], x), position |-> best_idx]

(***************************************************************************)
(* shield/pii_shield.py: _redact_text.  A text is a sequence of            *)
(* characters, here all different; a finding is a span [start, end) of     *)
(* the text with an entity type; the tag [TYPE] is three characters.       *)
(***************************************************************************)
Chars == <<"a", "b", "c", "d", "e", "f">>

Min(a, b) == IF a < b THEN a ELSE b

\* text[:stop] and text[start:] of a Python string, for indices >= 0
SliceTo(text, stop) == SubSeq(text, 1, Min(stop, Len(text)))

SliceFrom(text, start) == SubSeq(text, Min(start, Len(text)) + 1, Len(text))

\* f"[{pii_type.upper()}]"
Tag(type) == <<"[", type, "]">>

\* f placed in the list s, sorted by start descending, after the elements
\* that do not start before it
RECURSIVE InsertByStart(_, _)
InsertByStart(s, f) ==
    IF s = << >> THEN <<f>>
    ELSE IF Head(s).start >= f.start THEN <<Head(s)>> \o InsertByStart(Tail(s), f)
    ELSE <<f>> \o s

\* sorted(replacements, key = lambda x: x[0], reverse = True), which is stable
RECURSIVE SortedByStart(_)
SortedByStart(findings) ==
    IF findings = << >> THEN << >>
    ELSE InsertByStart(SortedByStart(SubSeq(findings, 1, Len(findings) - 1)),
                       findings[Len(findings)])

\* the loop of _redact_text over the sorted replacements
RECURSIVE Replace(_, _)
Replace(text, reps) ==
    IF reps = << >> THEN text
    ELSE Replace(SliceTo(text, Head(reps).start) \o Tag(Head(reps).type)
                    \o SliceFrom(text, Head(reps).end),
                 Tail(reps))

\* PIIShield._redact_text
PIIShield_redact_text(text, findings) == Replace(text, SortedByStart(findings))

\* the handler's redact branch: results maps the indices of the messages
\* with findings to their processed_text
redact_messages(messages, results) ==
    [i \in DOMAIN messages |->
        IF i \in DOMAIN results
        THEN [role |-> messages[i].role, content |-> results[i]]
        ELSE messages[i]]

(***************************************************************************)
(* shield/pii_shield.py, shield/prompt_injection_detector.py,              *)
(* services/cache.py, services/semantic_cache.py.  A request carries one   *)
(* user message; its text is one of four classes: clean text, text with a  *)
(* PII span, text the detector scores at or above block_threshold, and     *)
(* text it scores between warn_threshold and block_threshold.              *)
(***************************************************************************)
Contents == {"hi", "pii", "inj", "sus"}
Answers == {"a1", "a2"}

\* no response body
NoBody == [text |-> "none", of |-> "none"]

\* PIIDetector.detect_in_messages finds an entity
detect(text) == text = "pii"

\* PIIShield._redact_text: the span is replaced by [TYPE]
redact_text(text) == IF text = "pii" THEN "redacted" ELSE text

\* should_block of a result with findings
should_block(action) == action = "BLOCK"

\* PromptInjectionDetector.scan
scan(text) ==
    IF text = "inj" THEN [is_suspicious |-> TRUE, action |-> "BLOCK"]
    ELSE IF text = "sus" THEN [is_suspicious |-> TRUE, action |-> "WARN"]
    ELSE [is_suspicious |-> FALSE, action |-> "PASS"]

\* the pipeline's test of the scan result comparing with the wrong action
injection_blocks_on_warn(action) == action = "WARN"

\* the pipeline's test: injection_result.action == InjectionAction.BLOCK
injection_blocks(action) == action = "BLOCK"

\* a value that may be None: << >> is None, <<v>> is v
Some(v) == <<v>>

\* CacheService.generate_key: "llm:" and the hash of the canonical JSON of
\* params, the hash taken as injective; messages is a sequence of
\* [role, content], max_tokens is None or an integer
generate_key(model, messages, temperature, max_tokens) ==
    <<"llm", [model |-> model,
              messages |-> IF messages # << >> THEN Some(messages) ELSE << >>,
              temperature |-> temperature,
              max_tokens |-> IF max_tokens \notin {<< >>, Some(0)} THEN max_tokens ELSE << >>]>>

\* the handler's cache_key: generate_key is called with the model, the
\* messages and the temperature of the parsed request
cache_key(req) == generate_key(req.model, req.messages, req.temperature, << >>)

\* the request body of a client whose one user message is text
Body(text) == [model |-> "m1", messages |-> <<[role |-> "user", content |-> text]>>,
               temperature |-> 1, max_tokens |-> << >>]

\* json.dumps(value) and json.loads(value) of a response body
json_dumps(v) == <<"json", v>>

json_loads(text) == text[2]

\* CacheService.get treating a stored value as a miss
cache_get_never(store, key, up, t) ==
    [value |-> NoBody, hit |-> FALSE, miss |-> up, raised |-> FALSE]

\* CacheService.get without its except clause
cache_get_propagates(store, key, up, t) ==
    LET live == {e \in store : e.key = key /\ t < e.exp} IN
    IF ~up THEN [value |-> NoBody, hit |-> FALSE, miss |-> FALSE, raised |-> TRUE]
    ELSE IF live # {}
    THEN [value |-> json_loads((CHOOSE e \in live : TRUE).val), hit |-> TRUE, miss |-> FALSE,
          raised |-> FALSE]
    ELSE [value |-> NoBody, hit |-> FALSE, miss |-> TRUE, raised |-> FALSE]

\* CacheService.get: the stored value, or None (hit = FALSE, no value) on a
\* miss, an expired entry or a RedisError; hit and miss say which counter
\* is incremented, raised whether an exception leaves the method
cache_get(store, key, up, t) ==
    LET live == {e \in store : e.key = key /\ t < e.exp} IN
    IF ~up THEN [value |-> NoBody, hit |-> FALSE, miss |-> FALSE, raised |-> FALSE]
    ELSE IF live # {}
    THEN [value |-> json_loads((CHOOSE e \in live : TRUE).val), hit |-> TRUE, miss |-> FALSE,
          raised |-> FALSE]
    ELSE [value |-> NoBody, hit |-> FALSE, miss |-> TRUE, raised |-> FALSE]

\* CacheService.set with ttl = default_ttl; a RedisError is swallowed
cache_set(store, key, val, up, t) ==
    IF ~up THEN store
    ELSE {e \in store : e.key # key}
         \cup {[key |-> key, val |-> json_dumps(val), exp |-> t + CacheTTL]}

\* SemanticCacheService.lookup: the response of the best entry whose score
\* reaches the threshold; only an entry for the same text scores that high
RECURSIVE lookup(_, _)
lookup(vs, query) ==
    IF vs = << >> THEN None
    ELSE IF Head(vs).query = query THEN Head(vs).response
    ELSE lookup(Tail(vs), query)

\* SemanticCacheService.store
store(vs, query, response, model) ==
    Append(vs, [query |-> query, response |-> response, model |-> model])

(***************************************************************************)
(* api/v1/chat.py: create_chat_completion.  A context c holds the request  *)
(* q, the counters met, the semantic store vs and the router call count    *)
(* rc; a stage leaves a context whose request is no longer running as it   *)
(* is.                                                                     *)
(***************************************************************************)
Clients == {"p1", "p2"}

NoRequest == [pc |-> "idle", stream |-> FALSE, raw |-> "none", content |-> "none",
              stages |-> << >>, status |-> 0, body |-> NoBody, src |-> "none",
              key |-> << >>, calls |-> 0, judge |-> << >>, ran |-> 0]

NoMetrics == [pii_detections |-> 0, pii_blocks |-> 0, injection_detections |-> 0,
              injection_blocks |-> 0, cache_hits |-> 0, cache_misses |-> 0,
              rate_limit_rejections |-> 0]

\* the configurations of app.state the model runs: everything configured
\* with the shield redacting or blocking, and three with services absent;
\* the judge evaluator and the OpenAI provider are both created from
\* openai_api_key, so there is no judge where there is no router
PipelineConfigs ==
    { [rate_limiter |-> TRUE, pii |-> "REDACT", injection |-> TRUE, semantic |-> TRUE,
       cache |-> TRUE, router |-> TRUE, judge |-> TRUE],
      [rate_limiter |-> TRUE, pii |-> "BLOCK", injection |-> TRUE, semantic |-> TRUE,
       cache |-> TRUE, router |-> TRUE, judge |-> TRUE],
      [rate_limiter |-> FALSE, pii |-> "WARN", injection |-> TRUE, semantic |-> FALSE,
       cache |-> TRUE, router |-> TRUE, judge |-> FALSE],
      [rate_limiter |-> TRUE, pii |-> None, injection |-> FALSE, semantic |-> TRUE,
       cache |-> FALSE, router |-> TRUE, judge |-> TRUE],
      [rate_limiter |-> FALSE, pii |-> "REDACT", injection |-> TRUE, semantic |-> TRUE,
       cache |-> TRUE, router |-> FALSE, judge |-> FALSE] }

\* _schedule_judge adding no task
schedule_judge_never(q, response) == q

\* _schedule_judge
schedule_judge(q, response) ==
    IF cfg.judge THEN [q EXCEPT !.judge = Append(@, <<q.raw, response>>)] ELSE q

\* the handler returns its response
respond(q, body, src) ==
    [schedule_judge(q, body) EXCEPT !.pc = "done", !.status = 200, !.body = body, !.src = src]

\* raise HTTPException(status_code = status)
reject(q, status) == [q EXCEPT !.pc = "done", !.status = status]

run_pii(c) ==
    IF c.q.pc # "run" \/ cfg.pii = None THEN c
    ELSE LET found == detect(c.q.content)
             q1 == [c.q EXCEPT !.stages = Append(@, "pii")]
             m1 == IF found THEN [c.met EXCEPT !.pii_detections = @ + 1] ELSE c.met
         IN  IF found /\ should_block(cfg.pii)
             THEN [c EXCEPT !.q = reject(q1, 400),
                            !.met = [m1 EXCEPT !.pii_blocks = @ + 1]]
             ELSE IF found /\ cfg.pii = "REDACT"
             THEN [c EXCEPT !.q = [q1 EXCEPT !.content = redact_text(@)], !.met = m1]
             ELSE [c EXCEPT !.q = q1, !.met = m1]

run_injection(c) ==
    IF c.q.pc # "run" \/ ~cfg.injection THEN c
    ELSE LET res == scan(c.q.content)
             q1 == [c.q EXCEPT !.stages = Append(@, "injection")]
             m1 == IF res.is_suspicious
                   THEN [c.met EXCEPT !.injection_detections = @ + 1] ELSE c.met
         IN  IF injection_blocks(res.action)
             THEN [c EXCEPT !.q = reject(q1, 400),
                            !.met = [m1 EXCEPT !.injection_blocks = @ + 1]]
             ELSE [c EXCEPT !.q = q1, !.met = m1]

run_semantic(c) ==
    IF c.q.pc # "run" \/ ~cfg.semantic THEN c
    ELSE LET cached == lookup(c.vs, c.q.content)
             q1 == [c.q EXCEPT !.stages = Append(@, "semantic")]
         IN  IF cached # None
             THEN [c EXCEPT !.q = respond(q1, [text |-> cached, of |-> "none"], "semantic"),
                            !.vs = store(c.vs, c.q.content, cached, "m1")]
             ELSE [c EXCEPT !.q = q1]

\* the fallback response "You said: ..." and what follows it
mock_path(c) ==
    LET body == [text |-> "You said", of |-> c.q.content] IN
    IF cfg.cache
    THEN [c EXCEPT !.q = [c.q EXCEPT !.pc = "cache_set", !.body = body, !.src = "mock"]]
    ELSE [c EXCEPT !.q = respond(c.q, body, "mock")]

\* lines 277-282: the router is awaited, or absent
run_router(c) ==
    IF cfg.router
    THEN [c EXCEPT !.q = [c.q EXCEPT !.pc = "route", !.stages = Append(@, "router"),
                                     !.calls = @ + 1],
                   !.rc = @ + 1]
    ELSE mock_path(c)

\* lines 204-268: the streaming branch, or the exact-cache lookup, or the router
run_dispatch(c) ==
    IF c.q.pc # "run" THEN c
    ELSE IF c.q.stream
    THEN IF cfg.router
         THEN [c EXCEPT !.q = [c.q EXCEPT !.pc = "stream", !.status = 200]]
         ELSE [c EXCEPT !.q = [c.q EXCEPT !.pc = "done", !.status = 200, !.src = "fake",
                                          !.body = [text |-> "fake", of |-> "none"]]]
    ELSE IF cfg.cache
    THEN [c EXCEPT !.q = [c.q EXCEPT !.pc = "cache_get", !.stages = Append(@, "exact"),
                                     !.key = cache_key(Body(c.q.content))]]
    ELSE run_router(c)

\* lines 129-268, which hold no await that suspends
after_rate_limit(c) == run_dispatch(run_semantic(run_injection(run_pii(c))))

InitPipelineIdle ==
    /\ cfg = [rate_limiter |-> FALSE, pii |-> None, injection |-> FALSE, semantic |-> FALSE,
              cache |-> FALSE, router |-> FALSE, judge |-> FALSE]
    /\ P = [k \in Clients |-> NoRequest]
    /\ met = NoMetrics
    /\ kvstore = {}
    /\ kvUp = TRUE
    /\ vstore = << >>
    /\ routerCalls = 0

(***************************************************************************)
(* The clock.                                                              *)
(***************************************************************************)
Tick ==
    /\ now < MaxTime
    /\ now' = now + 1

(***************************************************************************)
(* SpecBreaker: one breaker, any caller, any order of calls.               *)
(***************************************************************************)
breakerVars == <<cb, cbOp, streak, trips>>
retryVars == <<rp>>
routerVars == <<fallbacks, breakers, rq>>
limiterVars == <<limiter, zset, ttl, rl, admits, rlCalls>>
pipelineVars == <<cfg, P, met, kvstore, kvUp, vstore, routerCalls>>
pureVars == <<fn>>

InitBreakerIdle ==
    /\ cb = CircuitBreaker(3, 30)
    /\ cbOp = [op |-> "init", from |-> "closed", ret |-> TRUE]
    /\ streak = 0
    /\ trips = 0

InitRetryIdle == rp = NoCall

InitPureIdle == fn = [pc |-> "none"]

InitBreaker ==
    /\ now = 1
    /\ \E ft \in 1..MaxThreshold, rt \in 1..MaxRecovery : cb = CircuitBreaker(ft, rt)
    /\ cbOp = [op |-> "init", from |-> "closed", ret |-> TRUE]
    /\ streak = 0
    /\ trips = 0
    /\ InitRetryIdle
    /\ InitRouterIdle
    /\ InitLimiterIdle
    /\ InitPipelineIdle
    /\ InitPureIdle

CBTick ==
    /\ Tick
    /\ UNCHANGED <<breakerVars, retryVars, routerVars, limiterVars, pipelineVars, pureVars>>

CBCanExecute ==
    /\ cb' = can_execute(cb, now).cb
    /\ cbOp' = [op |-> "can_execute", from |-> cb.state, ret |-> can_execute(cb, now).ret]
    /\ UNCHANGED <<now, streak, trips, retryVars, routerVars, limiterVars, pipelineVars, pureVars>>

CBRecordSuccess ==
    /\ cb' = record_success(cb)
    /\ cbOp' = [op |-> "record_success", from |-> cb.state, ret |-> TRUE]
    /\ streak' = 0
    /\ UNCHANGED <<now, trips, retryVars, routerVars, limiterVars, pipelineVars, pureVars>>

CBRecordFailure ==
    /\ streak < MaxFailures
    /\ cb.failure_count < MaxFailures
    /\ record_failure_trips(cb) => trips < MaxTrips
    /\ cb' = record_failure(cb, now)
    /\ cbOp' = [op |-> "record_failure", from |-> cb.state, ret |-> TRUE]
    /\ streak' = streak + 1
    /\ trips' = IF record_failure_trips(cb) THEN trips + 1 ELSE trips
    /\ UNCHANGED <<now, retryVars, routerVars, limiterVars, pipelineVars, pureVars>>

CBReset ==
    /\ cb' = reset(cb)
    /\ cbOp' = [op |-> "reset", from |-> cb.state, ret |-> TRUE]
    /\ streak' = 0
    /\ UNCHANGED <<now, trips, retryVars, routerVars, limiterVars, pipelineVars, pureVars>>

NextBreaker ==
    \/ CBTick
    \/ CBCanExecute
    \/ CBRecordSuccess
    \/ CBRecordFailure
    \/ CBReset

SpecBreaker == InitBreaker /\ [][NextBreaker]_vars

(***************************************************************************)
(* SpecRetry: one execute_with_retry(func) call; func's outcome at each    *)
(* invocation is free.  rp.log is the list of func's outcomes, in order.   *)
(***************************************************************************)
InitRetry ==
    /\ now = 1
    /\ InitBreakerIdle
    /\ InitRouterIdle
    /\ InitLimiterIdle
    /\ InitPipelineIdle
    /\ InitPureIdle
    /\ \E m \in -1..MaxAttemptsBound : rp = [NoCall EXCEPT !.max_attempts = m]

RetryStart ==
    /\ rp.pc = "idle"
    /\ rp' = IF execute_with_retry_enter(rp.max_attempts) = "call"
             THEN [rp EXCEPT !.pc = "call", !.attempt = 1]
             ELSE [rp EXCEPT !.pc = "returned", !.ret = "None"]
    /\ UNCHANGED <<now, breakerVars, routerVars, limiterVars, pipelineVars, pureVars>>

RetryFuncReturns ==
    /\ rp.pc = "call"
    /\ \E v \in Values :
         rp' = [rp EXCEPT !.pc = "returned", !.ret = v,
                          !.log = Append(@, [ok |-> TRUE, val |-> v])]
    /\ UNCHANGED <<now, breakerVars, routerVars, limiterVars, pipelineVars, pureVars>>

RetryFuncRaises ==
    /\ rp.pc = "call"
    /\ \E e \in Errors :
         rp' = IF execute_with_retry_except(rp.max_attempts, rp.attempt) = "raise"
               THEN [rp EXCEPT !.pc = "raised", !.err = e,
                               !.log = Append(@, [ok |-> FALSE, val |-> e])]
               ELSE [rp EXCEPT !.pc = "sleep",
                               !.log = Append(@, [ok |-> FALSE, val |-> e])]
    /\ UNCHANGED <<now, breakerVars, routerVars, limiterVars, pipelineVars, pureVars>>

\* asyncio.sleep(backoff_time) returns; the loop takes its next attempt
RetryWake ==
    /\ rp.pc = "sleep"
    /\ rp' = [rp EXCEPT !.pc = "call", !.attempt = @ + 1]
    /\ UNCHANGED <<now, breakerVars, routerVars, limiterVars, pipelineVars, pureVars>>

RetryTick ==
    /\ rp.pc = "sleep"
    /\ Tick
    /\ UNCHANGED <<breakerVars, retryVars, routerVars, limiterVars, pipelineVars, pureVars>>

NextRetry ==
    \/ RetryStart
    \/ RetryFuncReturns
    \/ RetryFuncRaises
    \/ RetryWake
    \/ RetryTick

SpecRetry == InitRetry /\ [][NextRetry]_vars

(***************************************************************************)
(* SpecRouter: two concurrent callers, each making one route or stream     *)
(* call over the adapters A and B.  What an upstream call does (return,    *)
(* raise, yield a chunk) is free.  The adapters' breakers start in a state *)
(* that earlier traffic can have left them in: 0 to failure_threshold      *)
(* failures recorded at time 1.                                            *)
(***************************************************************************)
InitRouter ==
    /\ now = 1
    /\ InitBreakerIdle
    /\ InitRetryIdle
    /\ InitLimiterIdle
    /\ InitPipelineIdle
    /\ InitPureIdle
    /\ fallbacks \in FallbackConfigs
    /\ breakers \in [Providers -> {Failed(n) : n \in 0..DefaultThreshold}]
    /\ rq = [r \in Reqs |-> NoReq]

Cur(r) == rq[r].chain[rq[r].i]

\* Router.route(request) / Router.stream(request) is called
RouterCall(r) ==
    /\ rq[r].pc = "idle"
    /\ \E kind \in {"route", "stream"}, model \in Models :
         LET go == route_enter(fallbacks, breakers, kind, model, now)
         IN  /\ rq' = [rq EXCEPT ![r] = go.q]
             /\ breakers' = go.brs
    /\ UNCHANGED <<now, fallbacks, breakerVars, retryVars, limiterVars, pipelineVars, pureVars>>

\* _do_completion returns a response
UpstreamReturns(r) ==
    /\ rq[r].pc = "call"
    /\ breakers' = [breakers EXCEPT ![Cur(r)] = complete_success(@)]
    /\ rq' = [rq EXCEPT ![r].pc = "done", ![r].result = "response", ![r].content = Cur(r)]
    /\ UNCHANGED <<now, fallbacks, breakerVars, retryVars, limiterVars, pipelineVars, pureVars>>

\* _do_completion raises: the retry loop sleeps, or raises on its last attempt
UpstreamRaises(r) ==
    /\ rq[r].pc = "call"
    /\ IF execute_with_retry_except(DefaultAttempts, rq[r].attempt) = "raise"
       THEN LET p == Cur(r)
                brs == [breakers EXCEPT ![p] = complete_except(@, now)]
                q == [rq[r] EXCEPT !.errors = router_except(@, p, "ProviderError"),
                                   !.i = @ + 1]
                go == route_loop(brs, q, now)
            IN  /\ breakers' = go.brs
                /\ rq' = [rq EXCEPT ![r] = go.q]
                /\ trips' = IF record_failure_trips(breakers[p]) THEN trips + 1 ELSE trips
       ELSE /\ rq' = [rq EXCEPT ![r].pc = "sleep"]
            /\ UNCHANGED <<breakers, trips>>
    /\ UNCHANGED <<now, fallbacks, cb, cbOp, streak, retryVars, limiterVars, pipelineVars, pureVars>>

\* asyncio.sleep(backoff_time) returns and the next attempt is issued
RetryWakes(r) ==
    /\ rq[r].pc = "sleep"
    /\ rq' = [rq EXCEPT ![r].pc = "call", ![r].attempt = @ + 1,
                        ![r].upstream[Cur(r)] = @ + 1]
    /\ UNCHANGED <<now, fallbacks, breakers, breakerVars, retryVars, limiterVars, pipelineVars, pureVars>>

\* _do_stream yields a chunk, which the router yields on
StreamYields(r) ==
    /\ rq[r].pc = "stream"
    /\ rq[r].out < MaxChunks
    /\ rq' = [rq EXCEPT ![r] = sse_chunk([@ EXCEPT !.out = @ + 1], Cur(r))]
    /\ UNCHANGED <<now, fallbacks, breakers, breakerVars, retryVars, limiterVars, pipelineVars, pureVars>>

\* _do_stream is exhausted
StreamEnds(r) ==
    /\ rq[r].pc = "stream"
    /\ breakers' = [breakers EXCEPT ![Cur(r)] = stream_success(@)]
    /\ rq' = [rq EXCEPT ![r] = sse_exhausted([@ EXCEPT !.pc = "done", !.result = "streamed",
                                                      !.content = Cur(r)])]
    /\ UNCHANGED <<now, fallbacks, breakerVars, retryVars, limiterVars, pipelineVars, pureVars>>

\* _do_stream raises
StreamRaises(r) ==
    /\ rq[r].pc = "stream"
    /\ LET p == Cur(r)
           brs == [breakers EXCEPT ![p] = stream_except(@, now)]
           q == [rq[r] EXCEPT !.errors = router_except(@, p, "ProviderError"),
                              !.i = @ + 1,
                              !.cut = IF @ = 0 /\ rq[r].out > 0 THEN Len(rq[r].frames) ELSE @]
           go == route_loop(brs, q, now)
       IN  /\ breakers' = go.brs
           /\ rq' = [rq EXCEPT ![r] = sse_raised(go.q)]
           /\ trips' = IF record_failure_trips(breakers[p]) THEN trips + 1 ELSE trips
    /\ UNCHANGED <<now, fallbacks, cb, cbOp, streak, retryVars, limiterVars, pipelineVars, pureVars>>

\* the client closes the connection after it has received some frames
ClientCloses(r) ==
    /\ rq[r].pc = "stream"
    /\ rq[r].frames # << >>
    /\ breakers' = [breakers EXCEPT ![Cur(r)] = stream_closed(@, now)]
    /\ rq' = [rq EXCEPT ![r].pc = "done", ![r].result = "cancelled"]
    /\ UNCHANGED <<now, fallbacks, breakerVars, retryVars, limiterVars, pipelineVars, pureVars>>

RouterTick ==
    /\ Tick
    /\ UNCHANGED <<breakerVars, retryVars, routerVars, limiterVars, pipelineVars, pureVars>>

NextRouter ==
    \/ \E r \in Reqs : RouterCall(r)
    \/ \E r \in Reqs : UpstreamReturns(r)
    \/ \E r \in Reqs : UpstreamRaises(r)
    \/ \E r \in Reqs : RetryWakes(r)
    \/ \E r \in Reqs : StreamYields(r)
    \/ \E r \in Reqs : StreamEnds(r)
    \/ \E r \in Reqs : StreamRaises(r)
    \/ \E r \in Reqs : ClientCloses(r)
    \/ RouterTick

SpecRouter == InitRouter /\ [][NextRouter]_vars

(***************************************************************************)
(* SpecLimiter: up to MaxLimiterCalls is_allowed(identifier) calls for one *)
(* identifier, at most two at a time, with the KV store available.         *)
(***************************************************************************)
InitLimiter ==
    /\ now = 1
    /\ InitBreakerIdle
    /\ InitRetryIdle
    /\ InitRouterIdle
    /\ InitPipelineIdle
    /\ InitPureIdle
    /\ \E n \in 1..MaxRequests, w \in 1..MaxWindow : limiter = RateLimiter(n, w)
    /\ zset = {}
    /\ ttl = 0
    /\ rl = [c \in Callers |-> NoCheck]
    /\ admits = << >>
    /\ rlCalls = 0

otherVarsL == <<breakerVars, retryVars, routerVars, pipelineVars, pureVars>>

\* is_allowed is entered: now = time.time()
IsAllowedStart(c) ==
    /\ rl[c].pc \in {"idle", "done"}
    /\ rlCalls < MaxLimiterCalls
    /\ rlCalls' = rlCalls + 1
    /\ rl' = [rl EXCEPT ![c] = [NoCheck EXCEPT !.pc = "zremrangebyscore", !.now = now]]
    /\ UNCHANGED <<now, limiter, zset, ttl, admits, otherVarsL>>

\* await client.zremrangebyscore(key, 0, window_start); a set left empty is deleted
ZRemRangeByScore(c) ==
    /\ rl[c].pc = "zremrangebyscore"
    /\ zset' = zremrangebyscore(zset, 0, rl[c].now - limiter.window_seconds)
    /\ ttl' = IF zset' = {} THEN 0 ELSE ttl
    /\ rl' = [rl EXCEPT ![c].pc = "zcount"]
    /\ UNCHANGED <<now, limiter, admits, rlCalls, otherVarsL>>

\* count = await client.zcount(key, window_start, now); return False at the limit
ZCount(c) ==
    /\ rl[c].pc = "zcount"
    /\ LET count == zcount(zset, rl[c].now - limiter.window_seconds, rl[c].now)
       IN  rl' = IF count >= limiter.max_requests
                 THEN [rl EXCEPT ![c].pc = "done", ![c].count = count, ![c].ret = FALSE]
                 ELSE [rl EXCEPT ![c].pc = "zadd", ![c].count = count]
    /\ UNCHANGED <<now, limiter, zset, ttl, admits, rlCalls, otherVarsL>>

\* await client.zadd(key, {now: now})
ZAdd(c) ==
    /\ rl[c].pc = "zadd"
    /\ zset' = zadd(zset, rl[c].now)
    /\ rl' = [rl EXCEPT ![c].pc = "expire"]
    /\ UNCHANGED <<now, limiter, ttl, admits, rlCalls, otherVarsL>>

\* await client.expire(key, window_seconds); return True
Expire(c) ==
    /\ rl[c].pc = "expire"
    /\ ttl' = IF zset = {} THEN 0 ELSE now + limiter.window_seconds
    /\ rl' = [rl EXCEPT ![c].pc = "done", ![c].ret = TRUE]
    /\ admits' = Append(admits, now)
    /\ UNCHANGED <<now, limiter, zset, rlCalls, otherVarsL>>

\* time passes; a key whose expiry is reached is deleted
LimiterTick ==
    /\ Tick
    /\ IF ttl # 0 /\ now' >= ttl
       THEN zset' = {} /\ ttl' = 0
       ELSE UNCHANGED <<zset, ttl>>
    /\ UNCHANGED <<limiter, rl, admits, rlCalls, otherVarsL>>

NextLimiter ==
    \/ \E c \in Callers : IsAllowedStart(c)
    \/ \E c \in Callers : ZRemRangeByScore(c)
    \/ \E c \in Callers : ZCount(c)
    \/ \E c \in Callers : ZAdd(c)
    \/ \E c \in Callers : Expire(c)
    \/ LimiterTick

SpecLimiter == InitLimiter /\ [][NextLimiter]_vars

(***************************************************************************)
(* SpecLimiterKV: SpecLimiter with get_remaining calls and a KV store      *)
(* whose every command may raise; each caller makes one call.              *)
(***************************************************************************)
\* the limiter of SpecLimiter, before or after a first call was admitted at
\* time 1
InitLimiterKV ==
    /\ now = 1
    /\ InitBreakerIdle
    /\ InitRetryIdle
    /\ InitRouterIdle
    /\ InitPipelineIdle
    /\ InitPureIdle
    /\ \E n \in 1..MaxRequests, w \in 1..MaxWindow :
          /\ limiter = RateLimiter(n, w)
          /\ \/ zset = {} /\ ttl = 0
             \/ zset = zadd({}, 1) /\ ttl = 1 + w
    /\ rl = [c \in Callers |-> NoCheck]
    /\ admits = IF zset = {} THEN << >> ELSE <<1>>
    /\ rlCalls = 0

\* a command of is_allowed raises: lines 28-30
IsAllowedRaises(c) ==
    /\ rl[c].op = "is_allowed"
    /\ rl[c].pc \in {"zremrangebyscore", "zcount", "zadd", "expire"}
    /\ rl' = [rl EXCEPT ![c].pc = "done", ![c].raised = TRUE,
                        ![c].ret = is_allowed_except(limiter)]
    /\ admits' = IF is_allowed_except(limiter) THEN Append(admits, now) ELSE admits
    /\ UNCHANGED <<now, limiter, zset, ttl, rlCalls, otherVarsL>>

\* get_remaining is entered: now = time.time()
GetRemainingStart(c) ==
    /\ rl[c].pc = "idle"
    /\ rlCalls < MaxLimiterCalls
    /\ rlCalls' = rlCalls + 1
    /\ rl' = [rl EXCEPT ![c] = [NoCheck EXCEPT !.pc = "remaining_zcount", !.now = now,
                                               !.op = "get_remaining"]]
    /\ UNCHANGED <<now, limiter, zset, ttl, admits, otherVarsL>>

\* count = await client.zcount(key, window_start, now) returns
GetRemainingZCount(c) ==
    /\ rl[c].pc = "remaining_zcount"
    /\ LET count == zcount(zset, rl[c].now - limiter.window_seconds, rl[c].now)
       IN  rl' = [rl EXCEPT ![c].pc = "done", ![c].count = count,
                            ![c].remaining = get_remaining_return(limiter, count)]
    /\ UNCHANGED <<now, limiter, zset, ttl, admits, rlCalls, otherVarsL>>

\* the zcount of get_remaining raises: lines 39-41
GetRemainingRaises(c) ==
    /\ rl[c].pc = "remaining_zcount"
    /\ rl' = [rl EXCEPT ![c].pc = "done", ![c].raised = TRUE,
                        ![c].remaining = get_remaining_except(limiter)]
    /\ UNCHANGED <<now, limiter, zset, ttl, admits, rlCalls, otherVarsL>>

NextLimiterKV ==
    \/ \E c \in Callers : rl[c].pc = "idle" /\ IsAllowedStart(c)
    \/ \E c \in Callers : ZRemRangeByScore(c)
    \/ \E c \in Callers : ZCount(c)
    \/ \E c \in Callers : ZAdd(c)
    \/ \E c \in Callers : Expire(c)
    \/ \E c \in Callers : IsAllowedRaises(c)
    \/ \E c \in Callers : GetRemainingStart(c)
    \/ \E c \in Callers : GetRemainingZCount(c)
    \/ \E c \in Callers : GetRemainingRaises(c)
    \/ LimiterTick

SpecLimiterKV == InitLimiterKV /\ [][NextLimiterKV]_vars

(***************************************************************************)
(* SpecPipeline: two clients, each sending one chat-completions request.   *)
(* The rate limiter's answer (SpecLimiter) and the outcome of the router's *)
(* call (SpecRouter) are free here; the KV store may go down and come back.*)
(***************************************************************************)
InitPipeline ==
    /\ now = 1
    /\ InitBreakerIdle
    /\ InitRetryIdle
    /\ InitRouterIdle
    /\ InitLimiterIdle
    /\ InitPureIdle
    /\ cfg \in PipelineConfigs
    /\ P = [k \in Clients |-> NoRequest]
    /\ met = NoMetrics
    /\ kvstore = {}
    /\ kvUp = TRUE
    /\ vstore = << >>
    /\ routerCalls = 0

otherVarsP == <<breakerVars, retryVars, routerVars, limiterVars, pureVars>>

Ctx(q) == [q |-> q, met |-> met, vs |-> vstore, rc |-> routerCalls]

\* the context c becomes the state, with q the request of client k
Becomes(k, c) ==
    /\ P' = [P EXCEPT ![k] = c.q]
    /\ met' = c.met
    /\ vstore' = c.vs
    /\ routerCalls' = c.rc

\* a request arrives: lines 111-117, and on to the first await
PArrive(k) ==
    /\ P[k].pc = "idle"
    /\ \E stream \in BOOLEAN, text \in Contents :
         LET q == [NoRequest EXCEPT !.pc = "run", !.stream = stream, !.raw = text,
                                    !.content = text]
         IN  IF cfg.rate_limiter
             THEN Becomes(k, Ctx([q EXCEPT !.pc = "is_allowed",
                                           !.stages = <<"rate_limit">>]))
             ELSE Becomes(k, after_rate_limit(Ctx(q)))
    /\ UNCHANGED <<now, cfg, kvstore, kvUp, otherVarsP>>

\* rate_limiter.is_allowed(client_ip) returns
PIsAllowed(k) ==
    /\ P[k].pc = "is_allowed"
    /\ \E allowed \in BOOLEAN :
         P' = [P EXCEPT ![k] = IF allowed THEN [@ EXCEPT !.pc = "get_remaining"]
                               ELSE reject(@, 429)]
    /\ UNCHANGED <<now, cfg, met, kvstore, kvUp, vstore, routerCalls, otherVarsP>>

\* rate_limiter.get_remaining(client_ip) returns: lines 125-268
PGetRemaining(k) ==
    /\ P[k].pc = "get_remaining"
    /\ Becomes(k, after_rate_limit(Ctx([P[k] EXCEPT !.pc = "run"])))
    /\ UNCHANGED <<now, cfg, kvstore, kvUp, otherVarsP>>

\* cache.get(cache_key) returns: lines 268-282
PCacheGet(k) ==
    /\ P[k].pc = "cache_get"
    /\ LET got == cache_get(kvstore, P[k].key, kvUp, now)
           m1 == [met EXCEPT !.cache_hits = IF got.hit THEN @ + 1 ELSE @,
                             !.cache_misses = IF got.miss THEN @ + 1 ELSE @]
           c == [Ctx([P[k] EXCEPT !.pc = "run"]) EXCEPT !.met = m1]
       IN  IF got.raised THEN Becomes(k, [c EXCEPT !.q = reject(c.q, 500)])
           ELSE IF got.hit
           THEN Becomes(k, [c EXCEPT !.q = respond(c.q, got.value, "exact")])
           ELSE Becomes(k, run_router(c))
    /\ UNCHANGED <<now, cfg, kvstore, kvUp, otherVarsP>>

\* provider_router.route(domain_request) returns a response: lines 295-299
PRouteReturns(k) ==
    /\ P[k].pc = "route"
    /\ \E a \in Answers :
         LET body == [text |-> a, of |-> "none"] IN
         P' = [P EXCEPT ![k] = IF cfg.cache
                               THEN [@ EXCEPT !.pc = "cache_set", !.body = body,
                                              !.src = "provider"]
                               ELSE respond(@, body, "provider")]
    /\ UNCHANGED <<now, cfg, met, kvstore, kvUp, vstore, routerCalls, otherVarsP>>

\* provider_router.route(domain_request) raises: lines 283-294, 306-335
PRouteRaises(k) ==
    /\ P[k].pc = "route"
    /\ \E exc \in {"NoProviderError", "AllProvidersFailedError", "Exception"} :
         LET c == Ctx([P[k] EXCEPT !.pc = "run"]) IN
         IF route_error_status(exc) # 0
         THEN Becomes(k, [c EXCEPT !.q = reject(@, route_error_status(exc))])
         ELSE Becomes(k, mock_path(c))
    /\ UNCHANGED <<now, cfg, kvstore, kvUp, otherVarsP>>

\* cache.set(cache_key, api_response.model_dump()) returns: lines 299-304, 335-345
PCacheSet(k) ==
    /\ P[k].pc = "cache_set"
    /\ kvstore' = cache_set(kvstore, P[k].key, P[k].body, kvUp, now)
    /\ P' = [P EXCEPT ![k] = respond(@, @.body, @.src)]
    /\ UNCHANGED <<now, cfg, met, kvUp, vstore, routerCalls, otherVarsP>>

\* the StreamingResponse is sent: stream_and_judge runs provider_router.stream
PStreamRuns(k) ==
    /\ P[k].pc = "stream"
    /\ routerCalls' = routerCalls + 1
    /\ \E out \in Answers \cup {"", "NoProviderError", "AllProvidersFailedError"} :
         LET q == [P[k] EXCEPT !.stages = Append(@, "router"), !.calls = @ + 1,
                               !.pc = "done", !.src = "provider",
                               !.body = [text |-> out, of |-> "none"]]
         IN  P' = [P EXCEPT ![k] = IF out \in Answers THEN schedule_judge(q, q.body)
                                   ELSE q]
    /\ UNCHANGED <<now, cfg, met, kvstore, kvUp, vstore, otherVarsP>>

\* the response has been sent: the background tasks of the request run
PJudgeRuns(k) ==
    /\ P[k].pc = "done"
    /\ P[k].ran < Len(P[k].judge)
    /\ P' = [P EXCEPT ![k].ran = @ + 1]
    /\ UNCHANGED <<now, cfg, met, kvstore, kvUp, vstore, routerCalls, otherVarsP>>

\* the KV store goes down or comes back
KVFlips ==
    /\ kvUp' = ~kvUp
    /\ UNCHANGED <<now, cfg, P, met, kvstore, vstore, routerCalls, otherVarsP>>

PipelineTick ==
    /\ now < PipelineMaxTime
    /\ now' = now + 1
    /\ UNCHANGED <<pipelineVars, otherVarsP>>

NextPipeline ==
    \/ \E k \in Clients : PArrive(k)
    \/ \E k \in Clients : PIsAllowed(k)
    \/ \E k \in Clients : PGetRemaining(k)
    \/ \E k \in Clients : PCacheGet(k)
    \/ \E k \in Clients : PRouteReturns(k)
    \/ \E k \in Clients : PRouteRaises(k)
    \/ \E k \in Clients : PCacheSet(k)
    \/ \E k \in Clients : PStreamRuns(k)
    \/ \E k \in Clients : PJudgeRuns(k)
    \/ KVFlips
    \/ PipelineTick

SpecPipeline == InitPipeline /\ [][NextPipeline]_vars

(***************************************************************************)
(* SpecKey: the exact-cache keys of two request bodies a and b, as the     *)
(* handler computes them and as generate_key computes them when it is      *)
(* given max_tokens.  ChatCompletionRequest has no max_tokens field, so    *)
(* the max_tokens of a body does not reach the handler's call.             *)
(***************************************************************************)
KeyMessages ==
    { << >>,
      <<[role |-> "user", content |-> "hi"]>>,
      <<[role |-> "user", content |-> "bye"]>>,
      <<[role |-> "system", content |-> "hi"]>>,
      <<[role |-> "system", content |-> "hi"], [role |-> "user", content |-> "bye"]>>,
      <<[role |-> "user", content |-> "bye"], [role |-> "system", content |-> "hi"]>> }

Bodies ==
    [model : {"m1", "m2"}, messages : KeyMessages, temperature : {0, 1},
     max_tokens : {<< >>, Some(0), Some(100), Some(200)}]

InitKey ==
    /\ now = 1
    /\ InitBreakerIdle
    /\ InitRetryIdle
    /\ InitRouterIdle
    /\ InitLimiterIdle
    /\ InitPipelineIdle
    /\ fn \in [pc : {"parsed"}, a : Bodies, b : Bodies, ka : {<< >>}, kb : {<< >>}]

otherVarsK == <<now, breakerVars, retryVars, routerVars, limiterVars, pipelineVars>>

\* chat.py lines 263-267 for both requests
KeyOfRequest ==
    /\ fn.pc = "parsed"
    /\ fn' = [fn EXCEPT !.pc = "keyed", !.ka = cache_key(fn.a), !.kb = cache_key(fn.b)]
    /\ UNCHANGED otherVarsK

\* generate_key called with all four arguments
KeyOfArguments ==
    /\ fn.pc = "parsed"
    /\ fn' = [fn EXCEPT !.pc = "direct",
                        !.ka = generate_key(fn.a.model, fn.a.messages, fn.a.temperature,
                                            fn.a.max_tokens),
                        !.kb = generate_key(fn.b.model, fn.b.messages, fn.b.temperature,
                                            fn.b.max_tokens)]
    /\ UNCHANGED otherVarsK

NextKey == KeyOfRequest \/ KeyOfArguments

SpecKey == InitKey /\ [][NextKey]_vars

(***************************************************************************)
(* SpecAdapter: complete called on the adapters directly, by two callers,  *)
(* whatever is_available would say.  A caller holds the chain of the one   *)
(* adapter it calls.                                                       *)
(***************************************************************************)
InitAdapter ==
    /\ now = 1
    /\ InitBreakerIdle
    /\ InitRetryIdle
    /\ InitLimiterIdle
    /\ InitPipelineIdle
    /\ InitPureIdle
    /\ fallbacks = [k \in {} |-> << >>]
    /\ breakers \in [Providers -> {Failed(n) : n \in 0..DefaultThreshold}]
    /\ rq = [r \in Reqs |-> NoReq]

\* provider.complete(request) is called: the breaker gate, then the first
\* attempt of the retry loop
AdapterComplete(r) ==
    /\ rq[r].pc = "idle"
    /\ \E p \in Providers :
         LET gate == can_execute(breakers[p], now)
             q == [NoReq EXCEPT !.kind = "complete", !.chain = <<p>>, !.i = 1]
             in == adapter_enter(q, p, gate.cb)
         IN  IF ~gate.ret
             THEN /\ rq' = [rq EXCEPT ![r] = [q EXCEPT !.pc = "done",
                                                       !.result = "CircuitOpenError"]]
                  /\ breakers' = [breakers EXCEPT ![p] = gate.cb]
             ELSE /\ rq' = [rq EXCEPT ![r] = in.q]
                  /\ breakers' = [breakers EXCEPT ![p] = in.brs]
    /\ UNCHANGED <<now, fallbacks, breakerVars, retryVars, limiterVars, pipelineVars, pureVars>>

\* _do_completion raises: the retry loop sleeps, or raises on its last
\* attempt, and complete records the failure and raises to its caller
AdapterRaises(r) ==
    /\ rq[r].pc = "call"
    /\ IF execute_with_retry_except(DefaultAttempts, rq[r].attempt) = "raise"
       THEN /\ breakers' = [breakers EXCEPT ![Cur(r)] = complete_except(@, now)]
            /\ rq' = [rq EXCEPT ![r].pc = "done", ![r].result = "ProviderError"]
            /\ trips' = IF record_failure_trips(breakers[Cur(r)]) THEN trips + 1 ELSE trips
       ELSE /\ rq' = [rq EXCEPT ![r].pc = "sleep"]
            /\ UNCHANGED <<breakers, trips>>
    /\ UNCHANGED <<now, fallbacks, cb, cbOp, streak, retryVars, limiterVars, pipelineVars, pureVars>>

NextAdapter ==
    \/ \E r \in Reqs : AdapterComplete(r)
    \/ \E r \in Reqs : UpstreamReturns(r)
    \/ \E r \in Reqs : AdapterRaises(r)
    \/ \E r \in Reqs : RetryWakes(r)
    \/ RouterTick

SpecAdapter == InitAdapter /\ [][NextAdapter]_vars

(***************************************************************************)
(* SpecChain: one route or stream call of a Router built with any fallback *)
(* table over the keys m1 and "*", whose entries name registered and       *)
(* unregistered adapters, on breakers that are fresh or open.              *)
(***************************************************************************)
Names == {"A", "B", "C"}

\* the lists of at most n names
RECURSIVE NameLists(_)
NameLists(n) ==
    IF n = 0 THEN {<< >>}
    ELSE NameLists(n - 1) \cup {Append(l, x) : l \in {k \in NameLists(n - 1) : Len(k) = n - 1}, x \in Names}

FallbackTables == UNION {[D -> NameLists(MaxNames)] : D \in SUBSET {"m1", "*"}}

InitChain ==
    /\ now = 1
    /\ InitBreakerIdle
    /\ InitRetryIdle
    /\ InitRouterIdle
    /\ InitLimiterIdle
    /\ InitPipelineIdle
    /\ \E fb \in FallbackTables, model \in Models, kind \in {"route", "stream"},
          brs \in [Providers -> {Failed(0), Failed(DefaultThreshold)}] :
          fn = [pc |-> "built", fallbacks |-> fb, model |-> model, kind |-> kind,
                brs |-> brs, after |-> brs, q |-> NoReq]

\* Router.route(request) / Router.stream(request) is called
ChainCall ==
    /\ fn.pc = "built"
    /\ LET go == route_enter(fn.fallbacks, fn.brs, fn.kind, fn.model, now)
       IN  fn' = [fn EXCEPT !.pc = "called", !.q = go.q, !.after = go.brs]
    /\ UNCHANGED otherVarsK

NextChain == ChainCall

SpecChain == InitChain /\ [][NextChain]_vars

(***************************************************************************)
(* judge/evaluator.py and _run_judge of api/v1/chat.py.  The judge model's *)
(* output is a text that is not JSON, or the JSON of a list, or the JSON   *)
(* of an object whose keys hold numbers, strings or null.                  *)
(***************************************************************************)
JudgeDimension == {"relevance", "safety", "coherence", "accuracy", "completeness"}

SAFE_DEFAULT_SCORE == 6

\* a raised exception, and a returned value
Raised == [raised |-> TRUE, value |-> << >>]

Returned(v) == [raised |-> FALSE, value |-> Some(v)]

\* _safe_default()
safe_default ==
    [dimensions |-> [d \in JudgeDimension |-> SAFE_DEFAULT_SCORE],
     flags |-> <<"judge_error">>,
     reasoning |-> "failed"]

\* the values a key of the judge's object may hold: none, null, a number,
\* a string that float() parses and one it does not
ScoreValues ==
    {<< >>, Some([t |-> "null", v |-> 0]), Some([t |-> "str", v |-> 0])}
       \cup {Some([t |-> "num", v |-> n]) : n \in {-1, 0, 10, 11}}

FlagValues == {<< >>, Some(<<"list">>), Some(<<"list", "unsafe">>), Some(<<"str", "unsafe">>)}

\* float(data[key]): KeyError, TypeError or ValueError, or the number
float_of(scores, key) ==
    IF scores[key] = << >> THEN Raised
    ELSE IF scores[key][1].t # "num" THEN Raised
    ELSE Returned(scores[key][1].v)

\* _parse_judge_response without the range check of the scores
parse_judge_response_unchecked(raw) ==
    IF raw[1] # "json" THEN Raised
    ELSE LET data == json_loads(raw) IN
         IF data.kind # "dict" THEN Raised
         ELSE IF \E d \in JudgeDimension : float_of(data.scores, d).raised THEN Raised
         ELSE IF data.flags # << >> /\ data.flags[1][1] # "list" THEN Raised
         ELSE Returned([dimensions |-> [d \in JudgeDimension |-> float_of(data.scores, d).value[1]],
                        flags |-> IF data.flags = << >> THEN << >> ELSE Tail(data.flags[1]),
                        reasoning |-> "given"])

\* _parse_judge_response
parse_judge_response(raw) ==
    IF raw[1] # "json" THEN Raised
    ELSE LET data == json_loads(raw) IN
         IF data.kind # "dict" THEN Raised
         ELSE IF \E d \in JudgeDimension :
                    \/ float_of(data.scores, d).raised
                    \/ ~(0 <= float_of(data.scores, d).value[1]
                           /\ float_of(data.scores, d).value[1] <= 10)
         THEN Raised
         ELSE IF data.flags # << >> /\ data.flags[1][1] # "list" THEN Raised
         ELSE Returned([dimensions |-> [d \in JudgeDimension |-> float_of(data.scores, d).value[1]],
                        flags |-> IF data.flags = << >> THEN << >> ELSE Tail(data.flags[1]),
                        reasoning |-> "given"])

\* the body of evaluate's try: the prompt is built, the judge model is
\* called, and completion.choices[0].message.content or "" is parsed
evaluate_try(o) ==
    IF o.prompt = "raises" THEN Raised
    ELSE IF o.call = "raises" THEN Raised
    ELSE IF o.choices = 0 THEN Raised
    ELSE parse_judge_response(IF o.content = << >> THEN <<"text", "">> ELSE o.content[1])

\* JudgeEvaluator.evaluate: except Exception: return _safe_default()
evaluate(o) == IF evaluate_try(o).raised THEN Returned(safe_default) ELSE evaluate_try(o)

\* _run_judge: evaluate, then recorder.record if there is a recorder, all
\* inside try / except Exception
run_judge(o) ==
    LET result == evaluate(o) IN
    IF result.raised THEN [raised |-> FALSE, result |-> result, recorded |-> FALSE]
    ELSE IF o.recorder = "none" THEN [raised |-> FALSE, result |-> result, recorded |-> FALSE]
    ELSE IF o.recorder = "raises" THEN [raised |-> FALSE, result |-> result, recorded |-> FALSE]
    ELSE [raised |-> FALSE, result |-> result, recorded |-> TRUE]

\* the judge's objects, one score value shared by the dimensions but one
JudgeObjects ==
    {[kind |-> "dict",
      scores |-> [d \in JudgeDimension |-> IF d = odd THEN x ELSE y],
      flags |-> f] : odd \in JudgeDimension, x \in ScoreValues, y \in ScoreValues, f \in FlagValues}

JudgeOutputs ==
    {<< >>, Some(<<"text", "">>), Some(<<"text", "oops">>),
     Some(json_dumps([kind |-> "list", scores |-> << >>, flags |-> << >>]))}
       \cup {Some(json_dumps(data)) : data \in JudgeObjects}

\* what one run of the background task meets
JudgeRuns ==
    [prompt : {"built"}, call : {"returns"}, choices : {1}, content : JudgeOutputs,
     recorder : {"none", "records", "raises"}]
       \cup [prompt : {"built", "raises"}, call : {"returns", "raises"}, choices : {0, 1},
             content : {Some(<<"text", "oops">>)}, recorder : {"records"}]

(***************************************************************************)
(* SpecJudge: the background task of a request whose response was sent.    *)
(***************************************************************************)
InitJudge ==
    /\ now = 1
    /\ InitBreakerIdle
    /\ InitRetryIdle
    /\ InitRouterIdle
    /\ InitLimiterIdle
    /\ InitPipelineIdle
    /\ \E o \in JudgeRuns, a \in Answers :
          fn = [pc |-> "scheduled", o |-> o, sent |-> [status |-> 200, body |-> a],
                response |-> [status |-> 200, body |-> a],
                task |-> [raised |-> FALSE, result |-> Raised, recorded |-> FALSE]]

\* the framework runs the task after the response: await _run_judge(...)
JudgeTaskRuns ==
    /\ fn.pc = "scheduled"
    /\ fn' = [fn EXCEPT !.pc = "finished", !.task = run_judge(fn.o)]
    /\ UNCHANGED otherVarsK

NextJudge == JudgeTaskRuns

SpecJudge == InitJudge /\ [][NextJudge]_vars

(***************************************************************************)
(* SpecRegistry: one ProviderRegistry under register calls, of adapters    *)
(* named A or B that declare any of the models, and model lookups.         *)
(***************************************************************************)
InitRegistry ==
    /\ now = 1
    /\ InitBreakerIdle
    /\ InitRetryIdle
    /\ InitRouterIdle
    /\ InitLimiterIdle
    /\ InitPipelineIdle
    /\ fn = [pc |-> "registry", reg |-> ProviderRegistry, calls |-> 0,
             model |-> None, found |-> None]

\* registry.register(provider)
RegistryRegister ==
    /\ fn.pc = "registry"
    /\ fn.calls < MaxRegisters
    /\ \E name \in Providers, models \in SUBSET Models :
          fn' = [fn EXCEPT !.reg = register(fn.reg, name, models), !.calls = @ + 1,
                           !.model = None, !.found = None]
    /\ UNCHANGED otherVarsK

\* registry.get_provider_for_model(model)
RegistryLookup ==
    /\ fn.pc = "registry"
    /\ \E model \in Models :
          fn' = [fn EXCEPT !.model = model,
                           !.found = registry_get_provider_for_model(fn.reg, model)]
    /\ UNCHANGED otherVarsK

NextRegistry == RegistryRegister \/ RegistryLookup

SpecRegistry == InitRegistry /\ [][NextRegistry]_vars

(***************************************************************************)
(* judge/recorder.py and JudgeResult.passed.  The KV store holds the       *)
(* results by key and the two counters; a missing counter reads as 0 and   *)
(* INCR creates it.  The commands of one record call are awaited one by    *)
(* one, so the commands of concurrent calls interleave.                    *)
(***************************************************************************)
\* passed taken from the scores alone
passed_by_scores(result) == \A d \in JudgeDimension : result.dimensions[d] >= SAFE_DEFAULT_SCORE

\* JudgeResult.passed: every score >= default_score_threshold and no flag
passed(result) ==
    /\ \A d \in JudgeDimension : result.dimensions[d] >= SAFE_DEFAULT_SCORE
    /\ Len(result.flags) = 0

\* JudgeResult.to_dict, without the time of the evaluation
to_dict(result) ==
    [dimensions |-> result.dimensions, flags |-> result.flags,
     passed |-> passed(result), reasoning |-> result.reasoning]

\* f"{KEY_RESULT_PREFIX}{request_id}"
result_key(request_id) == <<"judge:result:", request_id>>

\* SET key value EX ttl: the entry is stored with an expiry
kv_set(kv, key, value) ==
    [kv EXCEPT !.results = [k \in DOMAIN kv.results \cup {key} |->
                               IF k = key THEN [value |-> value, ex |-> TRUE]
                               ELSE kv.results[k]]]

\* INCR judge:total_evaluations, INCR judge:failed_evaluations
incr_total(kv) == [kv EXCEPT !.total = @ + 1]

incr_failed(kv) == [kv EXCEPT !.failed = @ + 1]

\* the results a record call is given: scores around the threshold, with
\* and without a flag, and the safe default
JudgeResults ==
    {[dimensions |-> [d \in JudgeDimension |-> IF d = "safety" THEN x ELSE 7],
      flags |-> f, reasoning |-> "given"] : x \in {5, 6, 7}, f \in {<< >>, <<"unsafe">>}}
       \cup {safe_default}

Recorders == {"q1", "q2"}

NoRecord == [pc |-> "idle", result_json |-> << >>, passed |-> FALSE, raised |-> FALSE]

(***************************************************************************)
(* SpecRecorder: two concurrent callers of QualityRecorder.record on a KV  *)
(* store that goes down and comes back.                                    *)
(***************************************************************************)
InitRecorder ==
    /\ now = 1
    /\ InitBreakerIdle
    /\ InitRetryIdle
    /\ InitRouterIdle
    /\ InitLimiterIdle
    /\ InitPipelineIdle
    /\ fn = [pc |-> "recorder", up |-> TRUE, calls |-> 0,
             kv |-> [results |-> [k \in {} |-> << >>], total |-> 0, failed |-> 0],
             rec |-> [r \in Recorders |-> NoRecord]]

\* record(request_id, result) is called: lines 25-29
RecordStart(r) ==
    /\ fn.rec[r].pc \in {"idle", "done"}
    /\ fn.calls < MaxRecords
    /\ \E result \in JudgeResults :
          fn' = [fn EXCEPT !.calls = @ + 1,
                           !.rec[r] = [pc |-> "set", result_json |-> json_dumps(to_dict(result)),
                                       passed |-> to_dict(result).passed, raised |-> FALSE]]
    /\ UNCHANGED otherVarsK

\* await self._redis.set(result_key, result_json, ex = self._ttl)
RecordSet(r) ==
    /\ fn.rec[r].pc = "set"
    /\ IF fn.up
       THEN fn' = [fn EXCEPT !.kv = kv_set(@, result_key(r), fn.rec[r].result_json),
                             !.rec[r].pc = "incr_total"]
       ELSE fn' = [fn EXCEPT !.rec[r].pc = "done", !.rec[r].raised = TRUE]
    /\ UNCHANGED otherVarsK

\* await self._redis.incr(KEY_TOTAL_EVALUATIONS); if not passed: ...
RecordIncrTotal(r) ==
    /\ fn.rec[r].pc = "incr_total"
    /\ IF fn.up
       THEN fn' = [fn EXCEPT !.kv = incr_total(@),
                             !.rec[r].pc = IF ~fn.rec[r].passed THEN "incr_failed" ELSE "done"]
       ELSE fn' = [fn EXCEPT !.rec[r].pc = "done", !.rec[r].raised = TRUE]
    /\ UNCHANGED otherVarsK

\* await self._redis.incr(KEY_FAILED_EVALUATIONS)
RecordIncrFailed(r) ==
    /\ fn.rec[r].pc = "incr_failed"
    /\ IF fn.up
       THEN fn' = [fn EXCEPT !.kv = incr_failed(@), !.rec[r].pc = "done"]
       ELSE fn' = [fn EXCEPT !.rec[r].pc = "done", !.rec[r].raised = TRUE]
    /\ UNCHANGED otherVarsK

\* the KV store goes down or comes back
RecorderKVFlips ==
    /\ fn.pc = "recorder"
    /\ fn' = [fn EXCEPT !.up = ~@]
    /\ UNCHANGED otherVarsK

NextRecorder ==
    \/ \E r \in Recorders : RecordStart(r)
    \/ \E r \in Recorders : RecordSet(r)
    \/ \E r \in Recorders : RecordIncrTotal(r)
    \/ \E r \in Recorders : RecordIncrFailed(r)
    \/ RecorderKVFlips

SpecRecorder == InitRecorder /\ [][NextRecorder]_vars

(***************************************************************************)
(* SpecSearch: one VectorStore under add, remove and search.  A search is  *)
(* given a threshold or takes the configured one, as lookup does.          *)
(***************************************************************************)
InitSearch ==
    /\ now = 1
    /\ InitBreakerIdle
    /\ InitRetryIdle
    /\ InitRouterIdle
    /\ InitLimiterIdle
    /\ InitPipelineIdle
    /\ \E th \in Thresholds :
         fn = [pc |-> "idle", vs |-> VectorStore, configured |-> th,
               x |-> <<0, 0>>, threshold |-> 0, result |-> NoMatch,
               positions |-> << >>, removed |-> {}]

VSAdd ==
    /\ Len(fn.vs.index) < MaxEntries
    /\ \E x \in Vectors, r \in Responses :
         fn' = [fn EXCEPT !.pc = "idle", !.vs = add(fn.vs, x, r),
                          !.positions = Append(@, add_return(fn.vs))]
    /\ UNCHANGED otherVarsK

VSRemove ==
    /\ \E p \in 0..Len(fn.vs.index) :
         fn' = [fn EXCEPT !.pc = "idle", !.vs = remove(fn.vs, p),
                          !.removed = IF remove_return(fn.vs, p) THEN @ \cup {p} ELSE @]
    /\ UNCHANGED otherVarsK

VSSearch ==
    /\ \E x \in Vectors, th \in {<< >>} \cup {Some(t) : t \in Thresholds} :
         LET threshold == IF th = << >> THEN fn.configured ELSE th[1] IN
         \E best_idx \in IF Len(fn.vs.index) = 0 THEN {0} ELSE nearest(fn.vs, x) :
            fn' = [fn EXCEPT !.pc = "searched", !.x = x, !.threshold = threshold,
                             !.result = search(fn.vs, x, threshold, best_idx)]
    /\ UNCHANGED otherVarsK

NextSearch == VSAdd \/ VSRemove \/ VSSearch

SpecSearch == InitSearch /\ [][NextSearch]_vars

(***************************************************************************)
(* SpecRedact: a request of two messages, the detector's findings on the   *)
(* second, and the handler's redact branch.                                *)
(***************************************************************************)
Spans(n) == {f \in [start : 0..n, end : 0..n, type : {"A", "B"}] : f.start < f.end}

Findings(n) ==
    UNION {[1..m -> Spans(n)] : m \in 1..MaxFindings}

InitRedact ==
    /\ now = 1
    /\ InitBreakerIdle
    /\ InitRetryIdle
    /\ InitRouterIdle
    /\ InitLimiterIdle
    /\ InitPipelineIdle
    /\ \E n \in 1..MaxLen, role \in {"user", "assistant"} :
         \E findings \in Findings(n) :
            fn = [pc |-> "scanned",
                  messages |-> <<[role |-> "system", content |-> <<"s">>],
                                 [role |-> role, content |-> SubSeq(Chars, 1, n)]>>,
                  findings |-> findings,
                  modified |-> << >>]

\* scan_messages in REDACT mode and chat.py lines 141-150
RedactMessages ==
    /\ fn.pc = "scanned"
    /\ LET results == [i \in {2} |-> PIIShield_redact_text(fn.messages[2].content, fn.findings)]
       IN  fn' = [fn EXCEPT !.pc = "redacted",
                            !.modified = redact_messages(fn.messages, results)]
    /\ UNCHANGED otherVarsK

\* the request is dropped
RedactDone ==
    /\ fn.pc = "redacted"
    /\ fn' = [fn EXCEPT !.pc = "done"]
    /\ UNCHANGED otherVarsK

NextRedact == RedactMessages \/ RedactDone

SpecRedact == InitRedact /\ [][NextRedact]_vars

(***************************************************************************)
(* Claims about the circuit breaker (SpecBreaker).                         *)
(***************************************************************************)
C1_Step ==
    /\ (CBRecordFailure /\ streak' = cb.failure_threshold) => cb'.state = "open"
    /\ (CBCanExecute /\ cb.state = "open"
          /\ now - cb.last_failure_time <= cb.recovery_timeout)
       => (cbOp'.ret = FALSE /\ cb'.state = "open")
    /\ (CBCanExecute /\ cb.state = "open"
          /\ now - cb.last_failure_time > cb.recovery_timeout)
       => (cbOp'.ret = TRUE /\ cb'.state = "half_open")

\* C1: the failure_threshold-th consecutive record_failure since the breaker
\* was closed with count 0 leaves it open; while it is open, can_execute
\* returns false and changes nothing as long as now - last_failure_time <=
\* recovery_timeout, and the first can_execute after that returns true and
\* leaves the breaker half_open.
C1_OpenUntilRecovery == [][C1_Step]_vars

\* the whole scenario has happened: threshold failures in a row, then a
\* can_execute after the timeout that returned true into half_open
C1_Witness ==
    /\ cbOp.op = "can_execute"
    /\ cbOp.ret = TRUE
    /\ cb.state = "half_open"
    /\ streak = cb.failure_threshold
    /\ cb.failure_threshold >= 2

\* C2: in every reachable breaker state failure_count >= 0, and an open
\* breaker has last_failure_time > 0.
C2_BreakerInvariant ==
    /\ cb.failure_count >= 0
    /\ cb.state = "open" => cb.last_failure_time > 0

\* the breaker has been opened again after a reset had cleared last_failure_time
C2_Witness ==
    /\ cb.state = "open"
    /\ cbOp.op = "record_failure"
    /\ trips = 2

(***************************************************************************)
(* Claims about the router and the adapters (SpecRouter).                  *)
(***************************************************************************)
InFlight(q) == q.pc \in {"call", "sleep", "stream"}

Succeeded(q) == q.result \in {"response", "streamed"}

\* the calls admitted by p's breaker while it was half_open and not yet recorded
Trials(p) == {r \in Reqs : InFlight(rq[r]) /\ Cur(r) = p /\ rq[r].trial}

\* C3: at most one call admitted in half_open is in flight on a breaker: once
\* can_execute has admitted a caller in half_open, no second caller is
\* admitted before that trial has recorded its success or failure.
C3_OneTrialInFlight == \A p \in Providers : Cardinality(Trials(p)) <= 1

\* a stream call closed by its client while its adapter was streaming
Abandoned(q) == q.pc = "done" /\ q.result = "cancelled"

\* C5: route and stream invoke the adapters of the chain in chain order, each
\* at most once and one at a time: every adapter invoked before the current
\* one has failed and is in the error list, nothing is invoked after a
\* success, and when the chain is exhausted the error list names exactly the
\* adapters that were invoked, once each, in chain order.
C5_RouterOrder ==
    \A r \in Reqs :
        LET q == rq[r]
            n == Len(q.invoked)
        IN  /\ \A j \in 1..n : q.invoked[j] \in 1..Len(q.chain)
            /\ \A j, k \in 1..n : j < k => q.invoked[j] < q.invoked[k]
            /\ (InFlight(q) \/ Succeeded(q) \/ Abandoned(q))
               => (n >= 1 /\ q.invoked[n] = q.i /\ Len(q.errors) = n - 1)
            /\ ~(InFlight(q) \/ Succeeded(q) \/ Abandoned(q)) => Len(q.errors) = n
            /\ \A j \in 1..Len(q.errors) : q.errors[j][1] = q.chain[q.invoked[j]]

\* a stream call that invoked B, then A, and failed on both
C5_Witness ==
    \E r \in Reqs :
        /\ rq[r].kind = "stream"
        /\ rq[r].result = "AllProvidersFailedError"
        /\ rq[r].chain = <<"B", "A">>
        /\ Len(rq[r].errors) = 2

\* a route call over [A, B] in which A's three attempts failed and B did not
FailedOver(q) ==
    /\ q.pc = "done"
    /\ q.kind = "route"
    /\ q.chain = <<"A", "B">>
    /\ q.upstream["A"] = DefaultAttempts
    /\ q.i = 2
    /\ q.result # "AllProvidersFailedError"

\* C6 as stated: after such a call the response is B's and A's breaker has
\* failure_count = 3 or is open.
C6_AsStated ==
    \A r \in Reqs :
        FailedOver(rq[r])
        => /\ rq[r].result = "response"
           /\ rq[r].content = "B"
           /\ (breakers["A"].failure_count = 3 \/ breakers["A"].state = "open")

C6_Step ==
    /\ \A r \in Reqs :
         UpstreamRaises(r)
         => LET p == Cur(r) IN
            IF rq[r].attempt = DefaultAttempts
            THEN /\ breakers'[p].failure_count = breakers[p].failure_count + 1
                 /\ breakers'[p].state = "open"
                    <=> breakers'[p].failure_count >= breakers[p].failure_threshold
            ELSE breakers' = breakers
    /\ \A r \in Reqs :
         FailedOver(rq[r])' => (rq'[r].result = "response" /\ rq'[r].content = "B")

\* C6 amended: such a call returns B's content without AllProvidersFailed,
\* and A's three failed attempts record one failure on A's breaker: the
\* first two leave the breaker as it is, the third raises failure_count by
\* one, and A is open after it exactly when the count has reached
\* failure_threshold.
C6_OneFailureRecorded == [][C6_Step]_vars

\* the call has failed over to B and A's breaker, fresh before, is closed at count 1
C6_Witness ==
    \E r \in Reqs :
        /\ FailedOver(rq[r])
        /\ rq[r].content = "B"
        /\ breakers["A"].failure_count = 1
        /\ breakers["A"].state = "closed"

(***************************************************************************)
(* Claims about the retry policy (SpecRetry).                              *)
(***************************************************************************)
AllFailed(log) == \A i \in 1..Len(log) : ~log[i].ok

\* C4: for max_attempts >= 1, func is invoked at most max_attempts times; a
\* call all of whose attempts failed has invoked func exactly max_attempts
\* times and raises the error of the last attempt; a call whose k-th attempt
\* succeeded has returned that attempt's value after exactly k invocations.
C4_RetryContract ==
    rp.max_attempts >= 1 =>
        /\ Len(rp.log) <= rp.max_attempts
        /\ (rp.pc \in {"returned", "raised"} /\ AllFailed(rp.log))
           => /\ rp.pc = "raised"
              /\ Len(rp.log) = rp.max_attempts
              /\ rp.err = rp.log[Len(rp.log)].val
        /\ \A k \in 1..Len(rp.log) :
              rp.log[k].ok => /\ rp.pc = "returned"
                              /\ rp.ret = rp.log[k].val
                              /\ Len(rp.log) = k

\* three failed attempts, the first and the last with different errors
C4_Witness ==
    /\ rp.pc = "raised"
    /\ Len(rp.log) = 3
    /\ rp.log[1].val # rp.err

(***************************************************************************)
(* Claims about the rate limiter (SpecLimiter).                            *)
(***************************************************************************)
\* the calls admitted in the window of duration window_seconds that ends at t
AdmittedIn(t) ==
    {i \in 1..Len(admits) : t - limiter.window_seconds < admits[i] /\ admits[i] <= t}

\* C7: in any window of duration window_seconds at most max_requests calls
\* for the identifier are admitted, whatever the interleaving of the calls.
C7_AtMostNPerWindow ==
    \A t \in 1..now : Cardinality(AdmittedIn(t)) <= limiter.max_requests

(***************************************************************************)
(* Claims about the request pipeline (SpecPipeline).                       *)
(***************************************************************************)
Stages == {"rate_limit", "pii", "injection", "semantic", "exact", "router"}

StageRank(s) ==
    CASE s = "rate_limit" -> 1
      [] s = "pii" -> 2
      [] s = "injection" -> 3
      [] s = "semantic" -> 4
      [] s = "exact" -> 5
      [] s = "router" -> 6

Configured(s) ==
    CASE s = "rate_limit" -> cfg.rate_limiter
      [] s = "pii" -> cfg.pii # None
      [] s = "injection" -> cfg.injection
      [] s = "semantic" -> cfg.semantic
      [] s = "exact" -> cfg.cache
      [] s = "router" -> cfg.router

\* the stages st ran in the pipeline's order, none of them before an earlier
\* configured stage
InOrder(st) ==
    /\ \A i, j \in DOMAIN st : i < j => StageRank(st[i]) < StageRank(st[j])
    /\ \A i \in DOMAIN st : \A s \in Stages :
          (Configured(s) /\ StageRank(s) < StageRank(st[i]))
             => \E j \in 1..(i - 1) : st[j] = s

\* C8: for every request, streaming or not, the stages that have run ran in
\* the order rate limit, PII shield, injection detector, semantic cache
\* lookup, exact cache lookup, router dispatch, and no stage has run while
\* an earlier configured stage was left out.
C8_StageOrder == \A k \in Clients : InOrder(P[k].stages)

\* the same for the requests that do not stream
C8_NonStreamingOrder == \A k \in Clients : ~P[k].stream => InOrder(P[k].stages)

\* the stage s runs for client k in this step
Runs(k, s) ==
    /\ \A i \in DOMAIN P[k].stages : P[k].stages[i] # s
    /\ \E i \in DOMAIN P'[k].stages : P'[k].stages[i] = s

\* client k is answered 400 in this step, with no later stage and no access
\* to a cache or a provider
Blocked(k) ==
    /\ P'[k].pc = "done"
    /\ P'[k].status = 400
    /\ \A i \in DOMAIN P'[k].stages : P'[k].stages[i] \notin {"semantic", "exact", "router"}
    /\ P'[k].calls = 0
    /\ routerCalls' = routerCalls
    /\ kvstore' = kvstore
    /\ vstore' = vstore
    /\ met'.cache_hits = met.cache_hits
    /\ met'.cache_misses = met.cache_misses

C9_Step ==
    \A k \in Clients :
       /\ (Runs(k, "pii") /\ detect(P[k].content) /\ should_block(cfg.pii))
             => /\ Blocked(k)
                /\ met'.pii_blocks = met.pii_blocks + 1
                /\ met'.injection_blocks = met.injection_blocks
       /\ (Runs(k, "injection") /\ scan(P'[k].content).action = "BLOCK")
             => /\ Blocked(k)
                /\ met'.injection_blocks = met.injection_blocks + 1
                /\ met'.pii_blocks = met.pii_blocks

\* C9: a request the injection detector classifies as BLOCK, or one for
\* which the PII shield returns should_block, is answered 400, raises
\* injection_blocks (respectively pii_blocks) by exactly one, and causes no
\* semantic-cache lookup, no exact-cache access and no provider call.
C9_BlockedRequest == [][C9_Step]_vars

\* one request blocked by the PII shield and one by the injection detector
C9_Witness ==
    /\ P["p1"].status = 400 /\ P["p1"].raw = "pii"
    /\ P["p2"].status = 400 /\ P["p2"].raw = "inj"
    /\ met.pii_blocks = 1
    /\ met.injection_blocks = 1
    /\ routerCalls = 0

\* client j was answered by a provider and the answer is stored and live
ColdStored(j) ==
    /\ P[j].pc = "done"
    /\ ~P[j].stream
    /\ P[j].src = "provider"
    /\ \E e \in kvstore : e.key = P[j].key /\ e.val = json_dumps(P[j].body) /\ now < e.exp

C10_Step ==
    \A k, j \in Clients :
       (/\ P[k].pc = "cache_get"
        /\ P'[k].pc # "cache_get"
        /\ P[k].raw = P[j].raw
        /\ ColdStored(j)
        /\ kvUp)
          => /\ P'[k].pc = "done"
             /\ P'[k].status = 200
             /\ P'[k].body = P[j].body
             /\ met'.cache_hits = met.cache_hits + 1
             /\ P'[k].calls = 0
             /\ routerCalls' = routerCalls

\* C10: once a non-streaming request has been answered by a provider and
\* stored, an identical request whose exact-cache lookup returns within the
\* TTL while the KV store is available is answered with the same content,
\* raises cache_hits by one, and makes no provider call.
C10_ExactCacheHit == [][C10_Step]_vars

\* p1 answered by a provider, p2 by the exact cache with the same content
C10_Witness ==
    /\ P["p1"].src = "provider" /\ P["p1"].pc = "done" /\ ~P["p1"].stream
    /\ P["p2"].src = "exact" /\ P["p2"].pc = "done"
    /\ P["p2"].raw = P["p1"].raw
    /\ P["p2"].body = P["p1"].body
    /\ P["p2"].calls = 0
    /\ met.cache_hits = 1
    /\ routerCalls = 1

(***************************************************************************)
(* Claims about the exact-cache key (SpecKey).                             *)
(***************************************************************************)
\* C11: the key under which a request is looked up and stored is a function
\* of exactly (model, ordered messages, temperature, max_tokens): two
\* requests get the same key exactly when they agree on all four.
\* max_tokens is absent, 100 or 200 and there is at least one message.
Ordinary(body) == body.max_tokens # Some(0) /\ body.messages # << >>

C11_KeyOfFour ==
    (fn.pc = "keyed" /\ Ordinary(fn.a) /\ Ordinary(fn.b))
       => ((fn.ka = fn.kb) <=> (fn.a = fn.b))

\* the same for generate_key given all four arguments
C11_GenerateKeyOfFour ==
    (fn.pc = "direct" /\ Ordinary(fn.a) /\ Ordinary(fn.b))
       => ((fn.ka = fn.kb) <=> (fn.a = fn.b))

\* the handler's key is a function of exactly model, messages, temperature
C11_KeyOfThree ==
    (fn.pc = "keyed" /\ Ordinary(fn.a) /\ Ordinary(fn.b))
       => ((fn.ka = fn.kb) <=> ([fn.a EXCEPT !.max_tokens = << >>]
                                  = [fn.b EXCEPT !.max_tokens = << >>]))

(***************************************************************************)
(* Claims about failures of the KV store (SpecPipeline).                   *)
(***************************************************************************)
C12_Step ==
    \A k \in Clients :
       /\ (P[k].pc = "cache_get" /\ P'[k].pc # "cache_get" /\ ~kvUp)
             => /\ P'[k].status = 0
                /\ met' = met
                /\ IF cfg.router
                   THEN /\ P'[k].pc = "route"
                        /\ P'[k].stages = Append(P[k].stages, "router")
                        /\ routerCalls' = routerCalls + 1
                   ELSE /\ P'[k].pc = "cache_set"
                        /\ P'[k].src = "mock"
       /\ (P[k].pc = "cache_set" /\ P'[k].pc # "cache_set" /\ ~kvUp)
             => /\ P'[k].pc = "done"
                /\ P'[k].status = 200
                /\ P'[k].body = P[k].body
                /\ kvstore' = kvstore

C13_FailOpen ==
    \A c \in Callers :
       (rl[c].pc = "done" /\ rl[c].raised)
          => /\ rl[c].op = "is_allowed" => rl[c].ret = TRUE
             /\ rl[c].op = "get_remaining" => rl[c].remaining = limiter.max_requests

\* c1 admitted by a failure although the window is full, c2 told that all
\* of max_requests remain
C13_Witness ==
    /\ rl["c1"].pc = "done" /\ rl["c1"].raised /\ rl["c1"].op = "is_allowed"
    /\ zcount(zset, rl["c1"].now - limiter.window_seconds, rl["c1"].now)
          >= limiter.max_requests
    /\ rl["c2"].pc = "done" /\ rl["c2"].raised /\ rl["c2"].op = "get_remaining"

(***************************************************************************)
(* Claims about the semantic cache in the pipeline (SpecPipeline).         *)
(***************************************************************************)
\* C14: once a request that missed the caches has been answered by a
\* provider on the cold path, the semantic cache holds an entry for its
\* query: a semantic lookup of the same query returns a stored response.
C14_StoredOnColdPath ==
    \A k \in Clients :
       (/\ cfg.semantic
        /\ P[k].pc = "done" /\ P[k].status = 200
        /\ ~P[k].stream /\ P[k].src = "provider")
          => lookup(vstore, P[k].content) # None

(***************************************************************************)
(* Claims about the vector store (SpecSearch).                             *)
(***************************************************************************)
\* C15: a search returns a response only if some stored, not removed entry
\* scores at least the threshold against the query, and the response is
\* that entry's; on an empty store it returns none.
C15_MatchAboveThreshold ==
    fn.pc = "searched" =>
       /\ fn.result.found =>
             \E p \in DOMAIN fn.vs.metadata :
                /\ score(fn.vs.index[p + 1], fn.x) >= fn.threshold
                /\ fn.result.response = fn.vs.metadata[p]
                /\ fn.result.score = score(fn.vs.index[p + 1], fn.x)
       /\ Len(fn.vs.index) = 0 => ~fn.result.found

\* a match at the threshold in a store with a removed entry
C15_Witness ==
    /\ fn.pc = "searched"
    /\ fn.result.found
    /\ fn.result.score = fn.threshold /\ fn.threshold > 0
    /\ Len(fn.vs.index) = 2
    /\ DOMAIN fn.vs.metadata = {1}

(***************************************************************************)
(* Claims about redaction in the pipeline (SpecPipeline).                  *)
(***************************************************************************)
\* the PII shield has redacted the message of client k
Redacted(k) ==
    /\ cfg.pii = "REDACT"
    /\ detect(P[k].raw)
    /\ \E i \in DOMAIN P[k].stages : P[k].stages[i] = "pii"

\* the exact-cache key and the mock response of a redacted request are made
\* of the redacted text
C16_KeyOfRedacted ==
    \A k \in Clients :
       Redacted(k) =>
          /\ P[k].content = redact_text(P[k].raw)
          /\ P[k].key # << >> => P[k].key = cache_key(Body(redact_text(P[k].raw)))
          /\ P[k].src = "mock" => P[k].body.of = redact_text(P[k].raw)

\* C16: when the PII shield redacts a message, every later consumer of the
\* request content, the judge evaluation included, receives the redacted
\* text and never the original.
C16_OnlyRedactedDownstream ==
    \A k \in Clients :
       Redacted(k) =>
          /\ P[k].content = redact_text(P[k].raw)
          /\ P[k].key # << >> => P[k].key = cache_key(Body(redact_text(P[k].raw)))
          /\ \A i \in DOMAIN P[k].judge : P[k].judge[i][1] = redact_text(P[k].raw)

(***************************************************************************)
(* Claims about redaction (SpecRedact).                                    *)
(***************************************************************************)
\* character i (from 1) of the text lies inside some finding's span
InSpan(i) == \E k \in DOMAIN fn.findings : fn.findings[k].start < i /\ i <= fn.findings[k].end

\* the characters of the original text among those of seq, in order
RECURSIVE OriginalOf(_)
OriginalOf(seq) ==
    IF seq = << >> THEN << >>
    ELSE IF \E i \in DOMAIN Chars : Chars[i] = Head(seq)
    THEN <<Head(seq)>> \o OriginalOf(Tail(seq))
    ELSE OriginalOf(Tail(seq))

\* the characters of the text outside every span, in order
RECURSIVE Outside(_)
Outside(i) ==
    IF i > Len(fn.messages[2].content) THEN << >>
    ELSE IF InSpan(i) THEN Outside(i + 1)
    ELSE <<fn.messages[2].content[i]>> \o Outside(i + 1)

\* number, order and roles of the messages are kept and the message
\* without findings is unchanged
MessagesKept ==
    /\ Len(fn.modified) = Len(fn.messages)
    /\ \A i \in DOMAIN fn.messages : fn.modified[i].role = fn.messages[i].role
    /\ fn.modified[1] = fn.messages[1]

\* no two findings share a character
DisjointSpans ==
    \A j, k \in DOMAIN fn.findings :
       j # k => \/ fn.findings[j].end <= fn.findings[k].start
                \/ fn.findings[k].end <= fn.findings[j].start

\* C17: redaction keeps the number, the order and the roles of the
\* messages, and for every set of findings, overlapping and nested spans
\* included, every character outside all spans is preserved in order and
\* no character inside a span remains in processed_text.
C17_RedactionInsideSpans ==
    fn.pc = "redacted" =>
       /\ MessagesKept
       /\ OriginalOf(fn.modified[2].content) = Outside(1)

\* the same for findings whose spans are disjoint
C17_DisjointSpansRedacted ==
    (fn.pc = "redacted" /\ DisjointSpans) =>
       /\ MessagesKept
       /\ OriginalOf(fn.modified[2].content) = Outside(1)

(***************************************************************************)
(* Claims about the judge (SpecPipeline).                                  *)
(***************************************************************************)
\* the request of client k has been answered successfully
Answered(k) ==
    /\ P[k].pc = "done"
    /\ IF P[k].stream THEN P[k].body.text \in Answers ELSE P[k].status = 200

\* C18: with a judge configured, a request that is answered successfully
\* has exactly one judge evaluation scheduled, on the content of its
\* response; none is scheduled before the response is produced or for a
\* request that is rejected or fails, and none runs before the response has
\* been handed over for delivery.
C18_OneJudgePerAnswer ==
    \A k \in Clients :
       /\ P[k].ran <= Len(P[k].judge)
       /\ P[k].ran > 0 => P[k].pc = "done"
       /\ cfg.judge =>
             IF Answered(k)
             THEN Len(P[k].judge) = 1 /\ P[k].judge[1][2] = P[k].body
             ELSE Len(P[k].judge) = 0

\* one request answered by a provider and judged, one rejected and not
C18_Witness ==
    /\ cfg.judge
    /\ Answered("p1") /\ P["p1"].src = "provider" /\ P["p1"].ran = 1
    /\ P["p2"].pc = "done" /\ P["p2"].status = 400 /\ Len(P["p2"].judge) = 0

(***************************************************************************)
(* Claims about streaming (SpecRouter).                                    *)
(***************************************************************************)
\* the frames sent to the caller r after the first failure of an upstream
\* stream that came after a content frame
AfterFailure(r) == SubSeq(rq[r].frames, rq[r].cut + 1, Len(rq[r].frames))

\* C19: when the upstream stream fails after at least one content frame
\* has been sent, the next frame sent is a single error frame and the
\* response closes: no content frame and no [DONE] frame follows.
C19_ErrorFrameClosesStream ==
    \A r \in Reqs :
       rq[r].cut > 0 =>
          /\ AfterFailure(r) \in {<< >>, <<"error">>}
          /\ (rq[r].pc = "done" /\ rq[r].result # "cancelled") => AfterFailure(r) = <<"error">>

\* the same when the failed provider was the last one of the chain to try
C19_LastProviderFails ==
    \A r \in Reqs :
       (rq[r].cut > 0 /\ rq[r].result = "AllProvidersFailedError")
          => AfterFailure(r) = <<"error">>

C20_Step ==
    \A r \in Reqs :
       (rq[r].pc = "stream" /\ rq'[r].result = "cancelled")
          => /\ breakers' = breakers
             /\ ~rq'[r].judged
             /\ rq'[r].frames = rq[r].frames

\* C20: when the client closes a streaming request after receiving some
\* frames, the adapter's stream is abandoned with neither a success nor a
\* failure recorded on its breaker, whose failure_count and state stay as
\* they were, and no judge evaluation is scheduled for the request.
C20_CancelLeavesBreaker == [][C20_Step]_vars

\* a stream cancelled after a content frame while its provider's breaker
\* holds a failure
C20_Witness ==
    /\ rq["r1"].result = "cancelled"
    /\ rq["r1"].out > 0
    /\ breakers[rq["r1"].chain[rq["r1"].i]].failure_count > 0
    /\ ~rq["r1"].judged

(***************************************************************************)
(* Claims about the router's chain (SpecRouter).                           *)
(***************************************************************************)
\* the step in which caller r calls route or stream
Calls(r) == rq[r].pc = "idle" /\ rq'[r].pc # "idle"

\* every adapter of r's resolved chain refuses at the time of the call
AllUnavailable(chain) ==
    /\ chain # << >>
    /\ \A j \in 1..Len(chain) : ~is_available(breakers[chain[j]], now).ret

C21_Step ==
    \A r \in Reqs :
       (Calls(r) /\ AllUnavailable(rq'[r].chain))
          => /\ rq'[r].pc = "done"
             /\ rq'[r].result = "AllProvidersFailedError"
             /\ rq'[r].errors = << >>
             /\ route_error_status(rq'[r].result) = 503
             /\ rq'[r].invoked = << >>
             /\ \A p \in Providers : rq'[r].upstream[p] = 0
             /\ breakers' = breakers

Registered(names) == SelectSeq(names, LAMBDA n : n \in Providers)

\* the adapters the registry's model lookup returns for a model
Declaring(model) == {p \in Providers : model \in DOMAIN model_map /\ model_map[model] = p}

\* the chain for a model as stated: the exact entry, else the wildcard
\* entry, else the adapter of the model lookup
StatedChain(fb, model) ==
    IF model \in DOMAIN fb THEN Registered(fb[model])
    ELSE IF "*" \in DOMAIN fb THEN Registered(fb["*"])
    ELSE IF Declaring(model) = {} THEN << >>
    ELSE <<CHOOSE p \in Declaring(model) : TRUE>>

\* C22: the chain for a model is the exact fallback entry for that model if
\* one exists, otherwise the wildcard entry if one exists, otherwise the
\* single adapter of the registry's model lookup, names not present in the
\* registry being omitted; route and stream fail with NoProvider exactly
\* when this chain is empty, before any adapter is consulted.
C22_ChainResolution ==
    (fn.pc = "called") =>
       /\ fn.q.chain = StatedChain(fn.fallbacks, fn.model)
       /\ (fn.q.result = "NoProviderError") <=> (StatedChain(fn.fallbacks, fn.model) = << >>)
       /\ (fn.q.result = "NoProviderError")
             => (fn.after = fn.brs /\ fn.q.invoked = << >> /\ fn.q.errors = << >>)

\* an exact entry wins over the wildcard entry and drops the unregistered C
C22_Witness ==
    /\ fn.pc = "called"
    /\ fn.model = "m1"
    /\ fn.fallbacks = [k \in {"m1", "*"} |-> IF k = "m1" THEN <<"C", "B">> ELSE <<"A">>]
    /\ fn.q.chain = <<"B">>

(***************************************************************************)
(* Claims about the judge (SpecJudge).                                     *)
(***************************************************************************)
\* the score the judge's object gives a dimension is a number in [0, 10]
GoodScore(v) == v # << >> /\ v[1].t = "num" /\ v[1].v \in 0..10

\* the run fails while building the prompt, calling the judge model or
\* parsing its output
JudgeFails(o) ==
    \/ o.prompt = "raises"
    \/ o.call = "raises"
    \/ o.choices = 0
    \/ o.content = << >>
    \/ o.content[1][1] # "json"
    \/ o.content[1][2].kind # "dict"
    \/ \E d \in JudgeDimension : ~GoodScore(o.content[1][2].scores[d])
    \/ (o.content[1][2].flags # << >> /\ o.content[1][2].flags[1][1] # "list")

\* C23: evaluate never raises to its caller: any failure while building the
\* prompt, calling the judge model or parsing its output (a score outside
\* [0, 10] and a flags field that is not a list included) yields the
\* safe-default result, every dimension at 6.0 and flags = [judge_error];
\* and a failure of the background judge task never changes the response
\* of the request that scheduled it.
C23_JudgeNeverRaises ==
    (fn.pc = "finished") =>
       /\ ~evaluate(fn.o).raised
       /\ ~fn.task.raised
       /\ ~fn.task.result.raised
       /\ JudgeFails(fn.o) =>
             /\ \A d \in JudgeDimension : fn.task.result.value[1].dimensions[d] = 6
             /\ fn.task.result.value[1].flags = <<"judge_error">>
       /\ ~JudgeFails(fn.o) =>
             \A d \in JudgeDimension :
                fn.task.result.value[1].dimensions[d] = fn.o.content[1][2].scores[d][1].v
       /\ fn.response = fn.sent

\* a run whose judge scored one dimension 11 and the others 10
C23_Witness ==
    /\ fn.pc = "finished"
    /\ fn.o.content # << >>
    /\ fn.o.content[1][1] = "json"
    /\ fn.o.content[1][2].kind = "dict"
    /\ fn.o.content[1][2].scores["safety"] = Some([t |-> "num", v |-> 11])
    /\ fn.o.content[1][2].scores["relevance"] = Some([t |-> "num", v |-> 10])
    /\ fn.o.content[1][2].flags = Some(<<"list">>)
    /\ fn.task.result.value[1] = safe_default

(***************************************************************************)
(* Claims about the metrics of the pipeline (SpecPipeline).                *)
(***************************************************************************)
\* the requests answered with 429
Rejected429 == {k \in Clients : P[k].pc = "done" /\ P[k].status = 429}

\* C24: every request rejected by the rate limiter (status 429) increments
\* rate_limit_rejections by exactly one, so the counter equals the number
\* of 429 responses.
C24_RejectionsCounted == met.rate_limit_rejections = Cardinality(Rejected429)

(***************************************************************************)
(* Claims about the registry (SpecRegistry).                               *)
(***************************************************************************)
\* the registered adapters that declare a model
DeclaredBy(reg, model) == {n \in DOMAIN reg.providers : model \in reg.providers[n]}

\* C25: after any sequence of register calls, re-registration of a name
\* with a different model list and adapters declaring overlapping models
\* included, get_provider_for_model(m) returns a currently registered
\* adapter that declares m whenever at least one registered adapter
\* declares m, and none otherwise.
C25_LookupFindsDeclaringAdapter ==
    (fn.pc = "registry" /\ fn.model # None) =>
       IF DeclaredBy(fn.reg, fn.model) # {}
       THEN fn.found \in DeclaredBy(fn.reg, fn.model)
       ELSE fn.found = None

\* the result of a lookup is never an adapter that does not declare the model
C25_LookupSound ==
    (fn.pc = "registry" /\ fn.model # None /\ fn.found # None)
       => fn.found \in DeclaredBy(fn.reg, fn.model)

(***************************************************************************)
(* Claims about the half-open breaker (SpecBreaker).                       *)
(***************************************************************************)
C26_Step ==
    /\ (CBRecordSuccess /\ cb.state = "half_open")
          => (cb'.state = "closed" /\ cb'.failure_count = 0)
    /\ (CBRecordFailure /\ cb.state = "half_open")
          => /\ cb'.state = "open"
             /\ cb'.last_failure_time = now
             /\ cb'.failure_count = cb.failure_count + 1

\* C26: in state half_open, record_success moves the breaker to closed with
\* failure_count 0, and record_failure moves it to open, sets
\* last_failure_time to the current time and leaves failure_count one
\* higher than before: the count is not reset.
C26_HalfOpenOutcome == [][C26_Step]_vars

\* a failure recorded on a half-open breaker of threshold 2 has reopened it
\* with the count at 3
C26_Witness ==
    /\ cbOp.op = "record_failure"
    /\ cbOp.from = "half_open"
    /\ cb.failure_threshold = 2
    /\ cb.state = "open"
    /\ cb.failure_count = 3
    /\ cb.last_failure_time = now

(***************************************************************************)
(* Claims about the adapter's complete (SpecAdapter, SpecRouter).          *)
(***************************************************************************)
\* what one step of caller r's complete call does to the breakers
C27_StepOf(r) ==
    LET p == rq'[r].chain[1] IN
    \* refused by the gate: no attempt, nothing recorded
    /\ (rq[r].pc = "idle" /\ rq'[r].result = "CircuitOpenError")
          => (breakers' = breakers /\ \A x \in Providers : rq'[r].upstream[x] = 0)
    \* a failed attempt that is not the last, and the next attempt
    /\ (rq[r].pc = "call" /\ rq'[r].pc = "sleep") => breakers' = breakers
    /\ (rq[r].pc = "sleep" /\ rq'[r].pc = "call") => breakers' = breakers
    \* the retry loop ends in a failure: one record_failure
    /\ (rq[r].pc = "call" /\ rq'[r].result = "ProviderError")
          => /\ breakers'[p].failure_count = breakers[p].failure_count + 1
             /\ breakers'[p].last_failure_time = now
             /\ rq[r].upstream[p] = DefaultAttempts
             /\ \A x \in Providers \ {p} : breakers'[x] = breakers[x]
    \* an attempt succeeds: one record_success
    /\ (rq[r].pc = "call" /\ rq'[r].result = "response")
          => /\ breakers'[p].failure_count = 0
             /\ breakers'[p].state = "closed"
             /\ \A x \in Providers \ {p} : breakers'[x] = breakers[x]

C27_Step == \A r \in Reqs : (rq'[r] # rq[r]) => C27_StepOf(r)

\* C27: each complete call that passes the breaker gate records exactly one
\* outcome on that adapter's breaker: one record_failure when the retry
\* loop ends in a terminal failure, not one per attempt, or one
\* record_success when an attempt succeeds; a call refused by the gate
\* performs no upstream attempt and records nothing.
C27_OneOutcomePerCall == [][C27_Step]_vars

\* a call on A that failed three attempts and recorded one failure, next
\* to a call on B that the gate refused
C27_Witness ==
    /\ rq["r1"].result = "ProviderError"
    /\ rq["r1"].upstream["A"] = DefaultAttempts
    /\ breakers["A"].failure_count = 1
    /\ rq["r2"].result = "CircuitOpenError"
    /\ rq["r2"].chain = <<"B">>

(***************************************************************************)
(* Claims about the adapter's stream (SpecRouter).                         *)
(***************************************************************************)
\* C28: each stream call, like each complete call, is wrapped by the retry
\* policy: a stream whose upstream request fails is re-attempted up to
\* max_attempts times before the breaker failure is recorded and the error
\* reaches the router.  Here for the streams that failed before any chunk.
C28_StreamRetried ==
    \A r \in Reqs :
       (rq[r].kind = "stream" /\ rq[r].out = 0)
          => \A j \in 1..Len(rq[r].errors) :
                rq[r].errors[j][2] = "ProviderError"
                   => rq[r].upstream[rq[r].errors[j][1]] = DefaultAttempts

\* the same for route, whose adapters call complete
C28_CompleteRetried ==
    \A r \in Reqs :
       rq[r].kind = "route"
          => \A j \in 1..Len(rq[r].errors) :
                rq[r].errors[j][2] = "ProviderError"
                   => rq[r].upstream[rq[r].errors[j][1]] = DefaultAttempts

\* what one step of caller r's stream call does to the breaker of the
\* adapter p that was streaming
C29_StepOf(r) ==
    LET p == rq[r].chain[rq[r].i] IN
    \* a chunk is yielded: nothing is recorded
    /\ (rq'[r].pc = "stream" /\ rq'[r].i = rq[r].i) => breakers' = breakers
    \* the upstream stream fails, after any number of chunks: a failure
    /\ (Len(rq'[r].errors) > Len(rq[r].errors))
          => /\ breakers'[p].failure_count = breakers[p].failure_count + 1
             /\ breakers'[p].last_failure_time = now
             /\ (breakers[p].state # "closed" => breakers'[p].state # "closed")
    \* the upstream stream is exhausted: a success
    /\ (rq'[r].result = "streamed")
          => (breakers'[p].failure_count = 0 /\ breakers'[p].state = "closed")

C29_Step ==
    \A r \in Reqs :
       (rq[r].pc = "stream" /\ rq[r].kind = "stream" /\ rq'[r] # rq[r]) => C29_StepOf(r)

\* C29: for a stream call, record_success is issued only after the upstream
\* stream has been consumed to its end without error; a stream that fails
\* after yielding any number of chunks records a failure and never a
\* success, and no success is recorded while chunks are being yielded.
C29_SuccessOnlyAtEnd == [][C29_Step]_vars

\* the stream of the half-open A failed after a chunk and reopened A
C29_Witness ==
    /\ rq["r1"].kind = "stream"
    /\ rq["r1"].chain = <<"A", "B">>
    /\ rq["r1"].cut > 0
    /\ rq["r1"].frames[1] = "A"
    /\ breakers["A"].state = "open"
    /\ breakers["A"].failure_count = DefaultThreshold + 1

(***************************************************************************)
(* Claims about skipped adapters (SpecRouter).                             *)
(***************************************************************************)
\* the chain positions the call r has passed without invoking the adapter
Skipped(r) ==
    {j \in 1..Len(rq[r].chain) :
        /\ (j < rq[r].i \/ rq[r].result = "AllProvidersFailedError")
        /\ \A k \in 1..Len(rq[r].invoked) : rq[r].invoked[k] # j}

\* C30: CircuitOpen is only a skip signal: an adapter whose breaker refuses
\* execution is never invoked upstream, contributes no entry to the
\* AllProvidersFailed error list, and its name never appears in the 503
\* body, for every interleaving of concurrent requests on the same adapter.
C30_SkipOnly ==
    \A r \in Reqs :
       /\ \A j \in 1..Len(rq[r].errors) : rq[r].errors[j][2] # "CircuitOpenError"
       /\ \A j \in Skipped(r) :
             /\ rq[r].upstream[rq[r].chain[j]] = 0
             /\ \A k \in 1..Len(rq[r].errors) :
                   error_names(rq[r].errors)[k] # rq[r].chain[j]

\* a route call over [A, B] that skipped A and failed on B, so that the
\* 503 names B only, next to another caller whose call on A failed
C30_Witness ==
    /\ rq["r1"].kind = "route"
    /\ rq["r1"].chain = <<"A", "B">>
    /\ rq["r1"].result = "AllProvidersFailedError"
    /\ rq["r1"].invoked = <<2>>
    /\ error_names(rq["r1"].errors) = <<"B">>
    /\ rq["r2"].upstream["A"] > 0
    /\ Len(rq["r2"].errors) > 0
    /\ rq["r2"].errors[1][1] = "A"

(***************************************************************************)
(* Claims about the positions of the vector store (SpecSearch).            *)
(***************************************************************************)
\* C31: the position ids returned by add are strictly increasing and never
\* reused after remove, and after any sequence of add and remove calls size
\* equals the number of entries added and not removed.
C31_PositionsAndSize ==
    /\ \A i, j \in 1..Len(fn.positions) : i < j => fn.positions[i] < fn.positions[j]
    /\ \A i \in 1..Len(fn.positions) : fn.positions[i] >= 0
    /\ size(fn.vs) = Len(fn.positions) - Cardinality(fn.removed)

\* an add after the removal of the first entry got a new position
C31_Witness ==
    /\ Len(fn.positions) = 2
    /\ fn.removed = {0}
    /\ fn.positions[2] = 1
    /\ size(fn.vs) = 1

(***************************************************************************)
(* Claims about the quality recorder (SpecRecorder).                       *)
(***************************************************************************)
\* the result a call of r is recording, as the judge gave it
Recording(r) == json_loads(fn.rec[r].result_json)

\* what one command of r's record call does when the KV store answers
C32_StepOf(r) ==
    /\ (fn.rec[r].pc = "set" /\ ~fn'.rec[r].raised)
          => /\ result_key(r) \in DOMAIN fn'.kv.results
             /\ fn'.kv.results[result_key(r)].value = fn.rec[r].result_json
             /\ fn'.kv.total = fn.kv.total /\ fn'.kv.failed = fn.kv.failed
             /\ fn'.rec[r].pc = "incr_total"
    /\ (fn.rec[r].pc = "incr_total" /\ ~fn'.rec[r].raised)
          => /\ fn'.kv.total = fn.kv.total + 1
             /\ fn'.kv.failed = fn.kv.failed
             /\ (fn'.rec[r].pc = "incr_failed")
                   <=> ~(/\ \A d \in JudgeDimension : Recording(r).dimensions[d] >= 6
                         /\ Recording(r).flags = << >>)
             /\ fn'.rec[r].pc \in {"incr_failed", "done"}
    /\ (fn.rec[r].pc = "incr_failed" /\ ~fn'.rec[r].raised)
          => /\ fn'.kv.failed = fn.kv.failed + 1
             /\ fn'.kv.total = fn.kv.total
             /\ fn'.rec[r].pc = "done"
    /\ fn'.rec[r].raised => fn'.kv = fn.kv

C32_Step == \A r \in Recorders : (fn'.rec[r] # fn.rec[r]) => C32_StepOf(r)

\* C32: each record(request_id, result) that completes without KV failure
\* stores the result under judge:result:<request_id>, increments
\* total_evaluations by exactly one and increments failed_evaluations by
\* one if and only if result.passed is false; after any sequence of record
\* calls, with KV failures possible at any step, failed_evaluations <=
\* total_evaluations.
C32_RecorderCounts == [][C32_Step]_vars /\ [](fn.kv.failed <= fn.kv.total)

\* three results were counted in total and one as failed, the last call of
\* q1, of a result that did not pass, having met a KV failure
C32_Witness ==
    /\ fn.kv.total = 3
    /\ fn.kv.failed = 1
    /\ fn.rec["q1"].pc = "done" /\ fn.rec["q1"].raised
    /\ ~fn.rec["q1"].passed
    /\ fn.rec["q2"].pc = "done" /\ ~fn.rec["q2"].raised

(***************************************************************************)
(* Claims about circuit_breaker_trips (SpecRouter, SpecBreaker).           *)
(***************************************************************************)
\* the adapters whose breaker this step has opened
Opened == {p \in Providers : breakers[p].state # "open" /\ breakers'[p].state = "open"}

C33_Step == trips' = trips + Cardinality(Opened)

\* C33: circuit_breaker_trips counts threshold crossings: it is incremented
\* exactly once each time a breaker changes from closed or half_open to
\* open, and is not incremented by a record_failure that arrives while the
\* breaker is already open, for example from a call admitted before it
\* opened.
C33_TripsCountCrossings == [][C33_Step]_vars

C33_OpeningStep == (Opened # {}) => trips' = trips + 1

\* every step that opens a breaker increments the counter once
C33_OpeningCounted == [][C33_OpeningStep]_vars

\* C34: for failure_threshold >= 1, in every reachable breaker state the
\* state is closed if and only if failure_count < failure_threshold, so
\* open and half_open always have failure_count >= failure_threshold.
C34_ClosedIffBelowThreshold ==
    cb.failure_threshold >= 1
       => ((cb.state = "closed") <=> (cb.failure_count < cb.failure_threshold))

\* a success has closed a half-open breaker whose count had reached the
\* threshold
C34_Witness ==
    /\ cbOp.op = "record_success"
    /\ cbOp.from = "half_open"
    /\ cb.state = "closed"
    /\ cb.failure_count = 0
    /\ cb.failure_threshold = MaxThreshold

\* the breaker refuses calls at time t: open, recovery_timeout not elapsed
Refusing(b, t) == b.state = "open" /\ ~(t - b.last_failure_time > b.recovery_timeout)

\* the step issues an upstream attempt of request r to provider p
Attempts(r, p) == rq'[r].upstream[p] > rq[r].upstream[p]

C35_Step ==
    \A r \in Reqs, p \in Providers : Attempts(r, p) => ~Refusing(breakers'[p], now)

\* C35: no upstream attempt is issued to a provider while its breaker is
\* open and its recovery_timeout has not elapsed; calls already inside their
\* retry loop make no further attempts once the breaker opens.
C35_NoAttemptWhileOpen == [][C35_Step]_vars

C35_FirstStep ==
    \A r \in Reqs, p \in Providers :
        (Attempts(r, p) /\ rq'[r].attempt <= 1) => ~Refusing(breakers'[p], now)

\* the first attempt of a call is never issued to a refusing breaker
C35_FirstAttemptGated == [][C35_FirstStep]_vars

C36_Step ==
    \A p \in Providers :
        (breakers[p].state = "open" /\ breakers'[p].state # "open")
           => /\ breakers'[p].state = "half_open"
              /\ now - breakers[p].last_failure_time > breakers[p].recovery_timeout

\* C36: an open breaker leaves the open state only through can_execute after
\* the recovery timeout (reset aside); a record_success from a call admitted
\* before it opened neither closes it nor clears its failure_count.
C36_OpenLeavesByGateOnly == [][C36_Step]_vars

C36_GateStep ==
    \A p \in Providers :
        (breakers[p].state = "open" /\ breakers'[p].state = "half_open")
           => now - breakers[p].last_failure_time > breakers[p].recovery_timeout

\* an open breaker becomes half_open only after the recovery timeout
C36_HalfOpenAfterTimeout == [][C36_GateStep]_vars

(***************************************************************************)
(* SpecRoute: two concurrent callers, each making one route call.  Every   *)
(* upstream attempt eventually returns or raises, and every backoff sleep  *)
(* eventually ends (its length is at most max_delay).                      *)
(***************************************************************************)
\* Router.route(request) is called
RouteCall(r) ==
    /\ rq[r].pc = "idle"
    /\ \E model \in Models :
         LET go == route_enter(fallbacks, breakers, "route", model, now)
         IN  /\ rq' = [rq EXCEPT ![r] = go.q]
             /\ breakers' = go.brs
    /\ UNCHANGED <<now, fallbacks, breakerVars, retryVars, limiterVars, pipelineVars, pureVars>>

NextRoute ==
    \/ \E r \in Reqs : RouteCall(r)
    \/ \E r \in Reqs : UpstreamReturns(r)
    \/ \E r \in Reqs : UpstreamRaises(r)
    \/ \E r \in Reqs : RetryWakes(r)
    \/ RouterTick

SpecRoute ==
    /\ InitRouter
    /\ [][NextRoute]_vars
    /\ \A r \in Reqs : WF_vars(UpstreamReturns(r) \/ UpstreamRaises(r))
    /\ \A r \in Reqs : WF_vars(RetryWakes(r))

RECURSIVE SumOver(_, _)
SumOver(f, S) ==
    IF S = {} THEN 0
    ELSE LET x == CHOOSE y \in S : TRUE IN f[x] + SumOver(f, S \ {x})

\* the upstream attempts request q has issued
Attempted(q) == SumOver(q.upstream, Providers)

\* the chain positions of adapter p that request q has invoked
InvokedOf(q, p) == {j \in 1..Len(q.invoked) : q.chain[q.invoked[j]] = p}

RouteOutcomes == {"response", "NoProviderError", "AllProvidersFailedError"}

C37_Bounded ==
    \A r \in Reqs :
       /\ Attempted(rq[r]) <= Len(rq[r].chain) * DefaultAttempts
       /\ \A p \in Providers : Cardinality(InvokedOf(rq[r], p)) <= 1
       /\ rq[r].pc = "done" => rq[r].result \in RouteOutcomes

\* C37: every route call terminates: given that each upstream attempt
\* eventually returns or fails, route eventually returns a response or
\* raises NoProviderError or AllProvidersFailedError, after at most chain
\* length x max_attempts upstream attempts, each adapter being invoked at
\* most once per request.
C37_RouteTerminates ==
    /\ []C37_Bounded
    /\ \A r \in Reqs : (rq[r].pc \in {"call", "sleep"}) ~> (rq[r].pc = "done")

\* a route call has raised AllProvidersFailedError after both adapters of
\* its chain used all their attempts
C37_Witness ==
    \E r \in Reqs :
       /\ rq[r].pc = "done"
       /\ rq[r].result = "AllProvidersFailedError"
       /\ Len(rq[r].chain) = 2
       /\ Attempted(rq[r]) = 2 * DefaultAttempts

(***************************************************************************)
(* SpecTrace: TraceMiddleware.dispatch around three requests, each to the  *)
(* chat route or to POST /metrics/reset.  fn.gauges is the collector's     *)
(* _gauges; the breakers are fresh and the KV store is empty, so reset     *)
(* changes nothing else that this specification looks at.                  *)
(***************************************************************************)
\* MetricsCollector.increment of a gauge
metrics_increment(gauges, metric_name) ==
    IF metric_name \in DOMAIN gauges
    THEN [gauges EXCEPT ![metric_name] = @ + 1]
    ELSE gauges

\* MetricsCollector.decrement
metrics_decrement(gauges, metric_name) ==
    IF metric_name \in DOMAIN gauges
    THEN [gauges EXCEPT ![metric_name] = @ - 1]
    ELSE gauges

\* MetricsCollector.reset: self._gauges = {k: 0 for k in self._gauges}
metrics_reset(gauges) == [k \in DOMAIN gauges |-> 0]

TraceReqs == {"t1", "t2", "t3"}
Paths == {"chat", "reset"}

InitTrace ==
    /\ now = 1
    /\ InitBreakerIdle
    /\ InitRetryIdle
    /\ InitRouterIdle
    /\ InitLimiterIdle
    /\ InitPipelineIdle
    /\ fn = [pc |-> "trace",
             gauges |-> [active_requests |-> 0],
             req |-> [r \in TraceReqs |-> [pc |-> "idle", path |-> "none", out |-> "none"]],
             resets |-> 0]

\* dispatch up to await call_next(request)
TraceStart(r) ==
    /\ fn.req[r].pc = "idle"
    /\ \E path \in Paths :
         fn' = [fn EXCEPT !.req[r] = [pc |-> "handler", path |-> path, out |-> "none"],
                          !.gauges = metrics_increment(@, "active_requests")]
    /\ UNCHANGED otherVarsK

\* reset_stats, inside call_next
TraceReset(r) ==
    /\ fn.req[r].pc = "handler"
    /\ fn.req[r].path = "reset"
    /\ fn' = [fn EXCEPT !.req[r].pc = "handled",
                        !.gauges = metrics_reset(@),
                        !.resets = @ + 1]
    /\ breakers' = [p \in Providers |-> reset(breakers[p])]
    /\ trips' = 0
    /\ UNCHANGED <<now, cb, cbOp, streak, retryVars, fallbacks, rq, limiterVars, pipelineVars>>

\* the handler's state once it can return or raise
TraceHandled(q) ==
    \/ q.pc = "handler" /\ q.path = "chat"
    \/ q.pc = "handled"

\* call_next returns a response: the rest of dispatch
TraceReturns(r) ==
    /\ TraceHandled(fn.req[r])
    /\ fn' = [fn EXCEPT !.req[r].pc = "done", !.req[r].out = "response",
                        !.gauges = metrics_decrement(@, "active_requests")]
    /\ UNCHANGED otherVarsK

\* call_next raises an Exception: the except branch of dispatch
TraceRaises(r) ==
    /\ TraceHandled(fn.req[r])
    /\ fn' = [fn EXCEPT !.req[r].pc = "done", !.req[r].out = "raised",
                        !.gauges = metrics_decrement(@, "active_requests")]
    /\ UNCHANGED otherVarsK

NextTrace ==
    \/ \E r \in TraceReqs : TraceStart(r)
    \/ \E r \in TraceReqs : TraceReset(r)
    \/ \E r \in TraceReqs : TraceReturns(r)
    \/ \E r \in TraceReqs : TraceRaises(r)

SpecTrace == InitTrace /\ [][NextTrace]_vars

\* the requests inside dispatch
InDispatch == {r \in TraceReqs : fn.req[r].pc \in {"handler", "handled"}}

\* C38: the active_requests gauge always equals the number of requests in
\* flight and is never negative, for every interleaving of request starts,
\* completions (normal or by exception) and metrics resets.
C38_GaugeIsInFlight ==
    /\ fn.gauges.active_requests = Cardinality(InDispatch)
    /\ fn.gauges.active_requests >= 0

\* until the first reset the gauge equals the number of requests in flight
C38_GaugeBeforeReset ==
    fn.resets = 0 => fn.gauges.active_requests = Cardinality(InDispatch)

\* C39: for every integer max_attempts, zero and negative included,
\* execute_with_retry(func) returns a value that an invocation of func
\* returned or raises an error that func raised; it never returns without
\* func having completed successfully.
C39_ReturnsOnlyAfterSuccess ==
    /\ rp.pc = "returned"
          => \E k \in 1..Len(rp.log) : rp.log[k].ok /\ rp.ret = rp.log[k].val
    /\ rp.pc = "raised"
          => \E k \in 1..Len(rp.log) : ~rp.log[k].ok /\ rp.err = rp.log[k].val

\* a call that invoked func at least once returns or raises func's outcome
C39_AfterAnInvocation ==
    rp.log # << >> => C39_ReturnsOnlyAfterSuccess

\* the score of the entry at position p against the query of the search
ScoreAt(p) == score(fn.vs.index[p + 1], fn.x)

\* the not removed entries of the highest score against the query
BestRemaining ==
    {p \in DOMAIN fn.vs.metadata :
        \A q \in DOMAIN fn.vs.metadata : ScoreAt(q) <= ScoreAt(p)}

\* C40: after any sequence of add and remove calls, search returns the
\* highest-scoring entry among those not removed whenever that entry's score
\* is >= threshold (ties to the lower position), and never returns a removed
\* entry: a removed entry cannot hide a remaining entry that meets the
\* threshold.
C40_SearchReturnsBestRemaining ==
    fn.pc = "searched" =>
       /\ fn.result.found => fn.result.position \in DOMAIN fn.vs.metadata
       /\ \A p \in BestRemaining :
             (ScoreAt(p) >= fn.threshold /\ \A q \in BestRemaining : p <= q)
                => /\ fn.result.found
                   /\ fn.result.position = p
                   /\ fn.result.response = fn.vs.metadata[p]

\* a search finds something whenever a remaining entry meets the threshold
C40_RemainingEntryFound ==
    fn.pc = "searched" =>
       ((\E p \in DOMAIN fn.vs.metadata : ScoreAt(p) >= fn.threshold) => fn.result.found)

\* a search never returns a removed entry
C40_NeverRemoved ==
    (fn.pc = "searched" /\ fn.result.found) => fn.result.position \in DOMAIN fn.vs.metadata

====
